---- MODULE Spec2Model ----
(***************************************************************************)
(* A model of qem-bot's incident-to-job decision engine:                   *)
(*   openqabot/types/incident.py   Incident (channel parsing, revisions,   *)
(*                                 livepatch detection)                    *)
(*   openqabot/loader/repohash.py  get_max_revision                        *)
(*   openqabot/types/incidents.py  Incidents.__call__ (filter pipeline,    *)
(*                                 settings, priority)                     *)
(*                                                                         *)
(* Strings.  A Python str that the code inspects (startswith, endswith,    *)
(* `in`, split, len) is a sequence of tokens: the string is the            *)
(* concatenation of its tokens.  ":" is always a token of its own, so      *)
(* split(":") is exact.  Within one kind of string (package names, channel *)
(* strings, flavor names) no token is a prefix or a suffix of another and  *)
(* the searched words are tokens, so the token-level startswith, endswith  *)
(* and `in` agree with the character-level ones.  Strings that the code    *)
(* only compares for equality or uses as dict keys (issue keys, setting    *)
(* keys) are plain strings.  A dict is a function with a finite domain; a  *)
(* dict whose iteration order matters is a sequence of entries.            *)
(***************************************************************************)
EXTENDS Integers, Sequences, FiniteSets, TLC

\* ------------------------------------------------------------------ bounds
MaxChannels == 2
MaxPackages == 3
MaxIncidents == 2
MaxRev == 2
MaxImages == 2

\* ----------------------------------------------------------------- strings
Colon == ":"

StartsWith(s, p) == Len(p) <= Len(s) /\ SubSeq(s, 1, Len(p)) = p

EndsWith(s, p) == Len(p) <= Len(s) /\ SubSeq(s, Len(s) - Len(p) + 1, Len(s)) = p

Contains(s, p) == \E i \in 1..(Len(s) - Len(p) + 1) : SubSeq(s, i, i + Len(p) - 1) = p

\* Character count of each token that may occur in a package name.
TokLen ==
  [t \in {"kernel-default", "kernel-source", "kernel-azure", "kgraft-patch-",
          "kernel-livepatch", "-tools", "-base", "x", "bash", "vim", "zsh"} |->
     CASE t = "kernel-default" -> 14
       [] t = "kernel-source" -> 13
       [] t = "kernel-azure" -> 12
       [] t = "kgraft-patch-" -> 13
       [] t = "kernel-livepatch" -> 16
       [] t = "-tools" -> 6
       [] t = "-base" -> 5
       [] t = "x" -> 1
       [] t = "bash" -> 4
       [] t = "vim" -> 3
       [] t = "zsh" -> 3]

RECURSIVE StrLen(_)
StrLen(s) == IF s = <<>> THEN 0 ELSE TokLen[Head(s)] + StrLen(Tail(s))

\* str.split(":"): the fields between the colons, empty fields included.
RECURSIVE Split(_)
Split(s) ==
  IF \A i \in 1..Len(s) : s[i] # Colon
    THEN <<s>>
    ELSE LET i == CHOOSE j \in 1..Len(s) :
                    s[j] = Colon /\ \A k \in 1..(j - 1) : s[k] # Colon
         IN <<SubSeq(s, 1, i - 1)>> \o Split(SubSeq(s, i + 1, Len(s)))

\* seq[n:] of Python, for n >= 0
DropFirst(seq, n) == SubSeq(seq, n + 1, Len(seq))

\* [f(x) for x in seq]
RECURSIVE MapSeq(_, _)
MapSeq(F(_), seq) == IF seq = <<>> THEN <<>> ELSE <<F(Head(seq))>> \o MapSeq(F, Tail(seq))

\* the elements of a sequence
Range(seq) == {seq[i] : i \in 1..Len(seq)}

\* every sequence over S of length at most n
SeqsUpTo(S, n) == UNION {[1..k -> S] : k \in 0..n}

\* sorted(seq, key=Key): stable, ascending (insertion of each element after
\* every element whose key is not larger)
RECURSIVE InsertByKey(_, _, _)
InsertByKey(Key(_), x, sorted) ==
  IF sorted = <<>> THEN <<x>>
  ELSE IF Key(Head(sorted)) <= Key(x)
         THEN <<Head(sorted)>> \o InsertByKey(Key, x, Tail(sorted))
         ELSE <<x>> \o sorted

RECURSIVE SortedByKey(_, _)
SortedByKey(Key(_), seq) ==
  IF seq = <<>> THEN <<>>
  ELSE InsertByKey(Key, seq[Len(seq)], SortedByKey(Key, SubSeq(seq, 1, Len(seq) - 1)))

\* A value that may be None: None, or Some(x).
None == [none |-> TRUE]

Some(x) == [none |-> FALSE, val |-> x]

\* str(n) for the small naturals of the model
Str(n) == <<"0", "1", "2", "3", "4", "5", "6", "7", "8", "9">>[n + 1]

\* ------------------------------------------------------------------- types
\* openqabot/types/types.py
Repos(p, v, a) == [product |-> p, version |-> v, arch |-> a, product_version |-> <<>>]

ArchVer(a, v) == [arch |-> a, version |-> v]

ProdVer(p, v) == [product |-> p, version |-> v, product_version |-> <<>>]

\* Repos.compute_url for a maintenance project (not SLFO): the URL is
\* determined by the project, the product, the version and, unless the
\* product name starts with "openSUSE", the arch.
compute_url(repo, arch, project) ==
  IF StartsWith(repo.product, <<"openSUSE">>)
    THEN [project |-> project, product |-> repo.product, version |-> repo.version, arch |-> <<>>]
    ELSE [project |-> project, product |-> repo.product, version |-> repo.version, arch |-> arch]

\* ------------------------------------------------- repository metadata host
\* What the metadata host answers for a URL:
\*   [kind |-> "rev", rev |-> n]  a repomd.xml with <revision>n</revision>
\*   [kind |-> "notok"]           an HTTP non-success status
\*   [kind |-> "neterr"]          ConnectionError, HTTPError or RetryError
\*   [kind |-> "parseerr"]        a body that is not XML (etree.ParseError)
\*   [kind |-> "norev"]           XML without a revision element
\*   [kind |-> "badrev"]          XML whose revision element holds no integer
\*                                (int(str(cs.text)) raises ValueError)
\* A host is a default answer and finitely many URLs answered otherwise.
RemoteGet(host, url) ==
  IF url \in DOMAIN host.over THEN host.over[url] ELSE host.dflt

\* get_max_revision keeping the revision of the last repository that answered
RECURSIVE LastRevisionFrom(_, _, _, _, _)
LastRevisionFrom(repos, arch, project, host, max_rev) ==
  IF repos = <<>> THEN [tag |-> "ok", rev |-> max_rev]
  ELSE LET ans == RemoteGet(host, compute_url(Head(repos), arch, project))
       IN CASE ans.kind = "notok" ->
                 LastRevisionFrom(Tail(repos), arch, project, host, max_rev)
            [] ans.kind \in {"neterr", "parseerr"} -> [tag |-> "NoRepoFound"]
            [] ans.kind = "norev" -> [tag |-> "NoRepoFound"]
            [] ans.kind = "badrev" -> [tag |-> "ValueError"]
            [] ans.kind = "rev" ->
                 LastRevisionFrom(Tail(repos), arch, project, host, ans.rev)

get_max_revision_Last(repos, arch, project, host) ==
  LastRevisionFrom(repos, arch, project, host, 0)

\* get_max_revision: [tag |-> "ok", rev |-> n], or [tag |-> the exception
\* that leaves the call]
RECURSIVE MaxRevisionFrom(_, _, _, _, _)
MaxRevisionFrom(repos, arch, project, host, max_rev) ==
  IF repos = <<>> THEN [tag |-> "ok", rev |-> max_rev]
  ELSE LET ans == RemoteGet(host, compute_url(Head(repos), arch, project))
       IN CASE ans.kind = "notok" ->
                 MaxRevisionFrom(Tail(repos), arch, project, host, max_rev)
            [] ans.kind \in {"neterr", "parseerr"} -> [tag |-> "NoRepoFound"]
            [] ans.kind = "norev" -> [tag |-> "NoRepoFound"]
            [] ans.kind = "badrev" -> [tag |-> "ValueError"]
            [] ans.kind = "rev" ->
                 MaxRevisionFrom(Tail(repos), arch, project, host,
                                 IF ans.rev > max_rev THEN ans.rev ELSE max_rev)

get_max_revision(repos, arch, project, host) ==
  MaxRevisionFrom(repos, arch, project, host, 0)

\* ---------------------------------------------------------------- Incident
NumberTokens == {"1", "2", "4", "12", "15"}

\* re.match(version_pattern, version): the matched prefix, or <<>> for no
\* match.  version_pattern = (\d+(?:[.-](?:SP)?\d+)?); a number token is a
\* maximal run of digits.
version_match(v) ==
  IF v = <<>> \/ v[1] \notin NumberTokens THEN <<>>
  ELSE IF Len(v) >= 3 /\ v[2] \in {".", "-"} /\ v[3] \in NumberTokens
    THEN SubSeq(v, 1, 3)
  ELSE IF Len(v) >= 4 /\ v[2] \in {".", "-"} /\ v[3] = "SP" /\ v[4] \in NumberTokens
    THEN SubSeq(v, 1, 4)
  ELSE <<v[1]>>

\* The ArchVer group of a channel (Incident._rev, the loop body's key).
GroupOf(repo) ==
  LET v == version_match(repo.version)
  IN ArchVer(repo.arch, IF v # <<>> THEN v ELSE repo.version)

\* Incident._rev, first loop: tmpdict as the sequence of its entries in
\* insertion order, each [key, repos].
RECURSIVE GroupChannels(_, _)
GroupChannels(channels, tmpdict) ==
  IF channels = <<>> THEN tmpdict
  ELSE LET repo == Head(channels)
           key == GroupOf(repo)
           item == <<repo.product, repo.version>>
           at == {i \in 1..Len(tmpdict) : tmpdict[i].key = key}
       IN GroupChannels(Tail(channels),
            IF at # {}
              THEN [i \in 1..Len(tmpdict) |->
                      IF i \in at
                        THEN [key |-> key, repos |-> Append(tmpdict[i].repos, item)]
                        ELSE tmpdict[i]]
              ELSE Append(tmpdict, [key |-> key, repos |-> <<item>>]))

\* the (product, version) pairs of a group, as get_max_revision reads them
AsRepo(item) == [product |-> item[1], version |-> item[2], product_version |-> <<>>]

\* Incident._rev, second loop: [tag |-> "ok", rev |-> entries] where entries
\* is the dict rev in insertion order, or [tag |-> "NoRepoFound"].
\* ResolveGroups recording the groups of revision 0 too
RECURSIVE ResolveGroups_KeepZero(_, _, _, _)
ResolveGroups_KeepZero(tmpdict, project, host, out) ==
  IF tmpdict = <<>> THEN [tag |-> "ok", rev |-> out]
  ELSE LET archver == Head(tmpdict).key
           got == get_max_revision(MapSeq(AsRepo, Head(tmpdict).repos),
                                   archver.arch, project, host)
       IN IF got.tag # "ok" THEN [tag |-> got.tag]
          ELSE ResolveGroups_KeepZero(Tail(tmpdict), project, host,
                 Append(out, [key |-> archver, rev |-> got.rev]))

RECURSIVE ResolveGroups(_, _, _, _)
ResolveGroups(tmpdict, project, host, out) ==
  IF tmpdict = <<>> THEN [tag |-> "ok", rev |-> out]
  ELSE LET archver == Head(tmpdict).key
           got == get_max_revision(MapSeq(AsRepo, Head(tmpdict).repos),
                                   archver.arch, project, host)
       IN IF got.tag # "ok" THEN [tag |-> got.tag]
          ELSE ResolveGroups(Tail(tmpdict), project, host,
                 IF got.rev > 0
                   THEN Append(out, [key |-> archver, rev |-> got.rev])
                   ELSE out)

_rev(channels, project, host) ==
  ResolveGroups(GroupChannels(channels, <<>>), project, host, <<>>)

IsKernelBuild(package) ==
  \/ StartsWith(package, <<"kernel-default">>)
  \/ StartsWith(package, <<"kernel-source">>)
  \/ StartsWith(package, <<"kernel-azure">>)

IsLivepatchMarker(package) ==
  \/ StartsWith(package, <<"kgraft-patch-">>)
  \/ StartsWith(package, <<"kernel-livepatch">>)

\* Incident._is_livepatch
RECURSIVE LivepatchFrom(_, _)
LivepatchFrom(packages, kgraft) ==
  IF packages = <<>> THEN kgraft
  ELSE IF IsKernelBuild(Head(packages)) THEN FALSE
  ELSE LivepatchFrom(Tail(packages), kgraft \/ IsLivepatchMarker(Head(packages)))

\* _is_livepatch leaving the loop at a kernel build instead of returning False
RECURSIVE LivepatchBreak(_, _)
LivepatchBreak(packages, kgraft) ==
  IF packages = <<>> THEN kgraft
  ELSE IF IsKernelBuild(Head(packages)) THEN kgraft
  ELSE LivepatchBreak(Tail(packages), kgraft \/ IsLivepatchMarker(Head(packages)))

_is_livepatch_Break(packages) == LivepatchBreak(packages, FALSE)

_is_livepatch(packages) == LivepatchFrom(packages, FALSE)

UpdatesPrefix == <<"SUSE", Colon, "Updates">>

\* r.split(":")[2:] for r in incident["channels"] if r.startswith("SUSE:Updates")
UpdatesFields(channels) ==
  MapSeq(LAMBDA r : DropFirst(Split(r), 2),
         SelectSeq(channels, LAMBDA r : StartsWith(r, UpdatesPrefix)))

DevToolsProduct == <<"SLE-Module-Development-Tools-OBS">>
ManagerServerProduct == <<"SLE-Module-SUSE-Manager-Server">>
X86 == <<"x86_64">>
Aarch64 == <<"aarch64">>

\* self.channels before the Manager-Server filter (incident.py 53-80)
ParsedChannels(channels) ==
  LET fields == UpdatesFields(channels)
      three == SelectSeq(fields, LAMBDA val : Len(val) = 3 /\ val[1] # DevToolsProduct)
      two == SelectSeq(fields, LAMBDA val : Len(val) = 2)
  IN MapSeq(LAMBDA val : Repos(val[1], val[2], val[3]), three)
     \o MapSeq(LAMBDA val : Repos(val[1], val[2], X86), two)

\* KeepChannel without the Manager-Server filter
KeepChannel_All(chan) == TRUE

\* remove Manager-Server on aarch64 from channels (incident.py 82-90)
KeepChannel(chan) ==
  ~(chan.product = ManagerServerProduct /\ chan.arch = Aarch64)

IncidentChannels(channels) == SelectSeq(ParsedChannels(channels), KeepChannel)

\* Incident.__init__ checking the packages before the channels
Incident_PackagesFirst(incident, host) ==
  LET channels == IncidentChannels(incident.channels)
      packages == SortedByKey(StrLen, incident.packages)
      revs == _rev(channels, incident.project, host)
  IN IF packages = <<>> THEN [tag |-> "EmptyPackagesError"]
     ELSE IF channels = <<>> THEN [tag |-> "EmptyChannels"]
     ELSE IF revs.tag # "ok" THEN [tag |-> revs.tag]
     ELSE [tag |-> "ok",
           inc |-> [rr |-> incident.rr_number,
                    project |-> incident.project,
                    id |-> incident.number,
                    rrid |-> IF incident.rr_number # 0
                               THEN Some(incident.project
                                           \o <<Colon, Str(incident.rr_number)>>)
                               ELSE None,
                    staging |-> ~incident.inReview,
                    embargoed |-> incident.embargoed,
                    channels |-> channels,
                    packages |-> packages,
                    emu |-> incident.emu,
                    revisions |-> revs.rev,
                    livepatch |-> _is_livepatch(packages)]]

\* Incident.__init__: [tag |-> "ok", inc |-> the Incident] or [tag |-> the
\* exception raised].
Incident(incident, host) ==
  LET channels == IncidentChannels(incident.channels)
      packages == SortedByKey(StrLen, incident.packages)
      revs == _rev(channels, incident.project, host)
  IN IF channels = <<>> THEN [tag |-> "EmptyChannels"]
     ELSE IF packages = <<>> THEN [tag |-> "EmptyPackagesError"]
     ELSE IF revs.tag # "ok" THEN [tag |-> revs.tag]
     ELSE [tag |-> "ok",
           inc |-> [rr |-> incident.rr_number,
                    project |-> incident.project,
                    id |-> incident.number,
                    rrid |-> IF incident.rr_number # 0
                               THEN Some(incident.project
                                           \o <<Colon, Str(incident.rr_number)>>)
                               ELSE None,
                    staging |-> ~incident.inReview,
                    embargoed |-> incident.embargoed,
                    channels |-> channels,
                    packages |-> packages,
                    emu |-> incident.emu,
                    revisions |-> revs.rev,
                    livepatch |-> _is_livepatch(packages)]]

\* ------------------------------------------------------------------- dicts
Has(d, k) == k \in DOMAIN d

Get(d, k, default) == IF k \in DOMAIN d THEN d[k] ELSE default

Put(d, k, v) == (k :> v) @@ d

Update(d, e) == e @@ d

Del(d, k) == [x \in (DOMAIN d) \ {k} |-> d[x]]

\* sep.join(parts)
RECURSIVE Join(_, _)
Join(sep, parts) ==
  IF parts = <<>> THEN <<>>
  ELSE IF Len(parts) = 1 THEN parts[1]
  ELSE parts[1] \o <<sep>> \o Join(sep, Tail(parts))

\* The characters (code points) of each token that may occur in a download URL.
UrlTokens ==
  {"FOO", "BAR", "openSUSE", "-SLE", "SLE-Module-Development-Tools-OBS",
   "SLE-Module-SUSE-Manager-Server", "1", "2", "4", "12", "15", ".", "-", "SP", "x86_64",
   "aarch64", "_", "/SUSE_Updates_", "X", "Updates", "SUSE", "extra",
   "http://download.suse.de/ibs/SUSE:/Maintenance:/", "0", "3", "5", "6", "7", "8", "9"}

Codes ==
  [t \in UrlTokens |->
     CASE t = "FOO" -> <<70, 79, 79>>
       [] t = "BAR" -> <<66, 65, 82>>
       [] t = "openSUSE" -> <<111, 112, 101, 110, 83, 85, 83, 69>>
       [] t = "-SLE" -> <<45, 83, 76, 69>>
       [] t = "SLE-Module-Development-Tools-OBS" -> <<83, 76, 69, 45, 77, 111, 100, 117, 108, 101, 45, 68, 101, 118, 101, 108, 111, 112, 109, 101, 110, 116, 45, 84, 111, 111, 108, 115, 45, 79, 66, 83>>
       [] t = "SLE-Module-SUSE-Manager-Server" -> <<83, 76, 69, 45, 77, 111, 100, 117, 108, 101, 45, 83, 85, 83, 69, 45, 77, 97, 110, 97, 103, 101, 114, 45, 83, 101, 114, 118, 101, 114>>
       [] t = "1" -> <<49>>
       [] t = "2" -> <<50>>
       [] t = "4" -> <<52>>
       [] t = "12" -> <<49, 50>>
       [] t = "15" -> <<49, 53>>
       [] t = "." -> <<46>>
       [] t = "-" -> <<45>>
       [] t = "SP" -> <<83, 80>>
       [] t = "x86_64" -> <<120, 56, 54, 95, 54, 52>>
       [] t = "aarch64" -> <<97, 97, 114, 99, 104, 54, 52>>
       [] t = "_" -> <<95>>
       [] t = "/SUSE_Updates_" -> <<47, 83, 85, 83, 69, 95, 85, 112, 100, 97, 116, 101, 115, 95>>
       [] t = "X" -> <<88>>
       [] t = "Updates" -> <<85, 112, 100, 97, 116, 101, 115>>
       [] t = "SUSE" -> <<83, 85, 83, 69>>
       [] t = "extra" -> <<101, 120, 116, 114, 97>>
       [] t = "http://download.suse.de/ibs/SUSE:/Maintenance:/" -> <<104, 116, 116, 112, 58, 47, 47, 100, 111, 119, 110, 108, 111, 97, 100, 46, 115, 117, 115, 101, 46, 100, 101, 47, 105, 98, 115, 47, 83, 85, 83, 69, 58, 47, 77, 97, 105, 110, 116, 101, 110, 97, 110, 99, 101, 58, 47>>
       [] t = "0" -> <<48>>
       [] t = "3" -> <<51>>
       [] t = "5" -> <<53>>
       [] t = "6" -> <<54>>
       [] t = "7" -> <<55>>
       [] t = "8" -> <<56>>
       [] t = "9" -> <<57>>]

RECURSIVE ToCodes(_)
ToCodes(s) == IF s = <<>> THEN <<>> ELSE Codes[Head(s)] \o ToCodes(Tail(s))

\* a < b for two lists of code points, as Python orders str
RECURSIVE CodesLess(_, _)
CodesLess(a, b) ==
  IF b = <<>> THEN FALSE
  ELSE IF a = <<>> THEN TRUE
  ELSE IF Head(a) # Head(b) THEN Head(a) < Head(b)
  ELSE CodesLess(Tail(a), Tail(b))

StrLess(a, b) == CodesLess(ToCodes(a), ToCodes(b))

\* sorted(S) for a set S of distinct strings
RECURSIVE SortedStrs(_)
SortedStrs(S) ==
  IF S = {} THEN <<>>
  ELSE LET m == CHOOSE x \in S : \A y \in S \ {x} : StrLess(x, y)
       IN <<m>> \o SortedStrs(S \ {m})

\* ----------------------------------------------------------------- pc_helper
\* The tools-image collaborator answers (get_latest_tools_image):
\*   [kind |-> "image", image |-> s]  the name of the first build not failing
\*   [kind |-> "none"]                no such build: None
\*   [kind |-> "raise"]               the query or its decoding raised
\* Each call fetches the query: get_latest_tools_image keeps no cache.
apply_pc_tools_image(settings, cloud) ==
  LET set == IF cloud.tools.kind = "image"
               THEN Put(settings, "PUBLIC_CLOUD_TOOLS_IMAGE_BASE", Some(cloud.tools.image))
             ELSE IF cloud.tools.kind = "none"
               THEN Put(settings, "PUBLIC_CLOUD_TOOLS_IMAGE_BASE", None)
             ELSE settings
  IN Del(set, "PUBLIC_CLOUD_TOOLS_IMAGE_QUERY")

\* get_recent_pint_image keeping the image seen last among the newest ones
RECURSIVE RecentLastFrom(_, _, _, _, _)
RecentLastFrom(images, name_regex, region, state, recentimage) ==
  IF images = <<>> THEN recentimage
  ELSE LET image == Head(images)
           skip == \/ ~StartsWith(image["name"], name_regex)
                   \/ ~state.none /\ image["state"] # state.val
                   \/ ~region.none /\ region.val # image["region"]
       IN RecentLastFrom(Tail(images), name_regex, region, state,
            IF skip THEN recentimage
            ELSE IF recentimage.none \/ image["publishedon"] >= recentimage.val["publishedon"]
              THEN Some(image)
            ELSE recentimage)

get_recent_pint_image_Last(images, name_regex, region, state) ==
  RecentLastFrom(images, name_regex,
                 IF ~region.none /\ region.val = <<>> THEN None ELSE region, state, None)

\* get_recent_pint_image.  name_regex is a pattern without metacharacters:
\* re.match succeeds on the names that start with it.  region and state are
\* None or Some(string); the result is None or Some(image).
RECURSIVE RecentFrom(_, _, _, _, _)
RecentFrom(images, name_regex, region, state, recentimage) ==
  IF images = <<>> THEN recentimage
  ELSE LET image == Head(images)
           skip == \/ ~StartsWith(image["name"], name_regex)
                   \/ ~state.none /\ image["state"] # state.val
                   \/ ~region.none /\ region.val # image["region"]
       IN RecentFrom(Tail(images), name_regex, region, state,
            IF skip THEN recentimage
            ELSE IF recentimage.none \/ image["publishedon"] > recentimage.val["publishedon"]
              THEN Some(image)
            ELSE recentimage)

get_recent_pint_image(images, name_regex, region, state) ==
  RecentFrom(images, name_regex,
             IF ~region.none /\ region.val = <<>> THEN None ELSE region, state, None)

\* The pint collaborator answers, for the query of each image state:
\*   [kind |-> "images", images |-> <<..>>]  a JSON object with the images
\*   [kind |-> "noimages"]                   a JSON object without "images"
\*   [kind |-> "raise"]                      the request or its decoding raised
PintStates == <<"active", "inactive", "deprecated">>

\* pint_query under lru_cache: the answer, the URLs fetched and the cache
\* afterwards.  A call that raises stores nothing.
pint_query(url, state, cloud, cache) ==
  [answer |-> cloud.pint[state],
   fetched |-> IF url \in cache THEN <<>> ELSE <<url>>,
   cache |-> IF cloud.pint[state].kind = "raise" THEN cache ELSE cache \cup {url}]

\* pc_helper.py 60-79: the loop over the states, from the k-th one.  The
\* result holds the image found (None when the loop failed or found none),
\* the URLs fetched and the cache.  PintStep is one pass, got the answer to
\* its query.
RECURSIVE PintLoop(_, _, _, _, _)
PintFound(image, got, seen) ==
  [image |-> image, cache |-> got.cache, fetched |-> seen \o got.fetched]

PintPick(settings, cloud, got, seen, k, image) ==
  IF ~image.none THEN PintFound(image, got, seen)
  ELSE PintLoop(settings, cloud, got.cache, seen \o got.fetched, k + 1)

PintStep(settings, cloud, got, seen, k) ==
  IF got.answer.kind # "images" \/ ~Has(settings, "PUBLIC_CLOUD_PINT_NAME")
    THEN PintFound(None, got, seen)
  ELSE PintPick(settings, cloud, got, seen, k,
         get_recent_pint_image(got.answer.images, settings["PUBLIC_CLOUD_PINT_NAME"],
           IF Has(settings, "PUBLIC_CLOUD_PINT_REGION")
             THEN Some(settings["PUBLIC_CLOUD_PINT_REGION"]) ELSE None,
           Some(<<PintStates[k]>>)))

PintLoop(settings, cloud, cache, seen, k) ==
  IF k > Len(PintStates) \/ ~Has(settings, "PUBLIC_CLOUD_PINT_QUERY")
    THEN [image |-> None, cache |-> cache, fetched |-> seen]
  ELSE PintStep(settings, cloud,
         pint_query(settings["PUBLIC_CLOUD_PINT_QUERY"] \o <<PintStates[k], ".json">>,
                    PintStates[k], cloud, cache),
         seen, k)

PintKeys ==
  {"PUBLIC_CLOUD_PINT_QUERY", "PUBLIC_CLOUD_PINT_NAME",
   "PUBLIC_CLOUD_PINT_REGION", "PUBLIC_CLOUD_PINT_FIELD"}

\* pc_helper.py 80-88: the image settings after the loop, res its result.
\* Every exception is caught and leaves PUBLIC_CLOUD_IMAGE_ID None.
PintTry(settings, res) ==
  IF /\ ~res.image.none
     /\ Has(settings, "PUBLIC_CLOUD_PINT_FIELD")
     /\ Has(res.image.val, settings["PUBLIC_CLOUD_PINT_FIELD"])
    THEN ("PUBLIC_CLOUD_IMAGE_ID" :> Some(res.image.val[settings["PUBLIC_CLOUD_PINT_FIELD"]]))
         @@ ("PUBLIC_CLOUD_IMAGE_NAME" :> res.image.val["name"])
         @@ ("PUBLIC_CLOUD_IMAGE_STATE" :> res.image.val["state"])
         @@ settings
    ELSE Put(settings, "PUBLIC_CLOUD_IMAGE_ID", None)

\* pc_helper.py 95-97: the region of the pint query is propagated
PintRegion(tried) ==
  IF Has(tried, "PUBLIC_CLOUD_PINT_REGION")
    THEN Put(tried, "PUBLIC_CLOUD_REGION", tried["PUBLIC_CLOUD_PINT_REGION"])
    ELSE tried

\* pc_helper.py 89-99: the pint keys are deleted
PintFinally(region) == [k \in (DOMAIN region) \ PintKeys |-> region[k]]

\* PintResult without the propagation of the region
PintResult_NoRegion(settings, res) ==
  [settings |-> PintFinally(PintTry(settings, res)),
   cache |-> res.cache, fetched |-> res.fetched]

\* the settings returned for the result of the loop, the cache of pint_query
\* and the URLs fetched
PintResult(settings, res) ==
  [settings |-> PintFinally(PintRegion(PintTry(settings, res))),
   cache |-> res.cache, fetched |-> res.fetched]

\* apply_publiccloud_pint_image without the propagation of the region
apply_publiccloud_pint_image_NoRegion(settings, cloud, cache) ==
  PintResult_NoRegion(settings, PintLoop(settings, cloud, cache, <<>>, 1))

\* apply_publiccloud_pint_image: the settings returned, the cache of
\* pint_query and the URLs fetched
apply_publiccloud_pint_image(settings, cloud, cache) ==
  PintResult(settings, PintLoop(settings, cloud, cache, <<>>, 1))

\* the truth value of settings.get(key, False) for a key holding None or Some(str)
Truthy(settings, key) ==
  Has(settings, key) /\ ~settings[key].none /\ settings[key].val # <<>>

\* ---------------------------------------------------------------- Incidents
BASE_PRIO == 50

DOWNLOAD_BASE == "http://download.suse.de/ibs/SUSE:/Maintenance:/"

\* Incidents.normalize_repos, for the data of one flavor: each issues value
\* "product:version" becomes a ProdVer.
normalize_repos(data) ==
  [key \in DOMAIN data |->
     IF key = "issues"
       THEN MapSeq(LAMBDA e : [key |-> e.key,
                               value |-> ProdVer(Split(e.value)[1], Split(e.value)[2])],
                   data[key])
       ELSE data[key]]

\* Incidents._repo_osuse
_repo_osuse(chan) ==
  IF chan.product = <<"openSUSE", "-SLE">>
    THEN <<chan.product, chan.version>>
    ELSE <<chan.product, chan.version, chan.arch, chan.product_version>>

\* Incident.contains_package
contains_package(packages, requires) ==
  \E i \in 1..Len(packages) : \E j \in 1..Len(requires) :
    /\ StartsWith(packages[i], requires[j])
    /\ packages[i] # <<"kernel-livepatch", "-tools">>

\* inc.revisions[key]: Some(revision) or None for a KeyError
RevisionAt(revisions, key) ==
  LET at == {i \in 1..Len(revisions) : revisions[i].key = key}
  IN IF at = {} THEN None ELSE Some(revisions[CHOOSE i \in at : TRUE].rev)

\* Incident.revisions_with_fallback: the revision recorded for exactly
\* (arch, version), else the first recorded one of the same arch, else None.
\* revisions_with_fallback falling back to the last entry of the arch
revisions_with_fallback_Last(revisions, arch, version) ==
  LET exact == RevisionAt(revisions, ArchVer(arch, version))
      same == {i \in 1..Len(revisions) : revisions[i].key.arch = arch}
  IN IF ~exact.none THEN exact
     ELSE IF same = {} THEN None
     ELSE Some(revisions[CHOOSE i \in same : \A j \in same : j <= i].rev)

revisions_with_fallback(revisions, arch, version) ==
  LET exact == RevisionAt(revisions, ArchVer(arch, version))
      same == {i \in 1..Len(revisions) : revisions[i].key.arch = arch}
  IN IF ~exact.none THEN exact
     ELSE IF same = {} THEN None
     ELSE Some(revisions[CHOOSE i \in same : \A j \in same : i <= j].rev)

\* One job record of the dashboard's answer against (flavor, arch, revision):
\* TRUE, FALSE, or "KeyError" (incidents.py 71-83).
JobMatches(job, inc, arch, ver, flavor) ==
  IF ~Has(job, "flavor") THEN "KeyError"
  ELSE IF job["flavor"] # flavor THEN "no"
  ELSE IF ~Has(job, "arch") THEN "KeyError"
  ELSE IF job["arch"] # arch THEN "no"
  ELSE IF ~Has(job, "settings") \/ ~Has(job["settings"], "REPOHASH") THEN "KeyError"
  ELSE IF RevisionAt(inc.revisions, ArchVer(arch, ver)).none THEN "KeyError"
  ELSE IF job["settings"]["REPOHASH"] = RevisionAt(inc.revisions, ArchVer(arch, ver)).val
    THEN "yes"
  ELSE "no"

\* Incidents._is_scheduled_job.  The dashboard answers, for an incident:
\*   [kind |-> "exception"]             the request or its decoding raised
\*   [kind |-> "error"]                 a dict with an "error" key
\*   [kind |-> "jobs", jobs |-> <<..>>] a list of job records (maybe empty)
\* _is_scheduled_job giving up at the first job record that lacks a key
_is_scheduled_job_UntilKeyError(answer, inc, arch, ver, flavor) ==
  IF answer.kind = "exception" THEN FALSE
  ELSE IF answer.kind = "error" THEN FALSE
  ELSE IF answer.jobs = <<>> THEN FALSE
  ELSE \E i \in 1..Len(answer.jobs) :
         /\ JobMatches(answer.jobs[i], inc, arch, ver, flavor) = "yes"
         /\ \A j \in 1..(i - 1) :
              JobMatches(answer.jobs[j], inc, arch, ver, flavor) # "KeyError"

_is_scheduled_job(answer, inc, arch, ver, flavor) ==
  IF answer.kind = "exception" THEN FALSE
  ELSE IF answer.kind = "error" THEN FALSE
  ELSE IF answer.jobs = <<>> THEN FALSE
  ELSE \E i \in 1..Len(answer.jobs) : JobMatches(answer.jobs[i], inc, arch, ver, flavor) = "yes"

KernelIssues == {"OS_TEST_ISSUES", "LTSS_TEST_ISSUES", "BASE_TEST_ISSUES", "RT_TEST_ISSUES"}

\* KernelGate without the exemption of livepatch incidents
KernelGate_NoLivepatch(flavor, inc, issue_keys) ==
  /\ Contains(flavor, <<"Kernel">>)
  /\ ~EndsWith(flavor, <<"Azure">>)
  /\ issue_keys \cap {"OS_TEST_ISSUES", "LTSS_TEST_ISSUES", "BASE_TEST_ISSUES",
                      "RT_TEST_ISSUES"} = {}

\* incidents.py 181-200: TRUE when the kernel gate drops the triple
KernelGate(flavor, inc, issue_keys) ==
  /\ Contains(flavor, <<"Kernel">>)
  /\ ~inc.livepatch
  /\ ~EndsWith(flavor, <<"Azure">>)
  /\ issue_keys \cap KernelIssues = {}

\* WithAggregate without the test of the negative trigger set against the keys
WithAggregate_NoNegative(data, keys, singlearch, packages) ==
  LET aggregate_job == Get(data, "aggregate_job", TRUE)
      pos == Get(data, "aggregate_check_true", {})
      neg == Get(data, "aggregate_check_false", {})
      a1 == IF ~aggregate_job /\ pos # {} /\ pos \cap keys # {} THEN FALSE ELSE TRUE
      a3 == IF ~aggregate_job /\ ~(neg # {} /\ pos # {}) THEN FALSE ELSE a1
  IN IF singlearch \cap Range(packages) # {} THEN FALSE ELSE a3

\* WithAggregate without the single-architecture packages
WithAggregate_NoSinglearch(data, keys, singlearch, packages) ==
  LET aggregate_job == Get(data, "aggregate_job", TRUE)
      pos == Get(data, "aggregate_check_true", {})
      neg == Get(data, "aggregate_check_false", {})
      a1 == IF ~aggregate_job /\ pos # {} /\ pos \cap keys # {} THEN FALSE ELSE TRUE
      a2 == IF ~aggregate_job /\ neg # {} /\ neg \cap keys = {} THEN FALSE ELSE a1
  IN IF ~aggregate_job /\ ~(neg # {} /\ pos # {}) THEN FALSE ELSE a2

\* incidents.py 213-231: full_post["qem"]["withAggregate"]
WithAggregate(data, keys, singlearch, packages) ==
  LET aggregate_job == Get(data, "aggregate_job", TRUE)
      pos == Get(data, "aggregate_check_true", {})
      neg == Get(data, "aggregate_check_false", {})
      a1 == IF ~aggregate_job /\ pos # {} /\ pos \cap keys # {} THEN FALSE ELSE TRUE
      a2 == IF ~aggregate_job /\ neg # {} /\ neg \cap keys = {} THEN FALSE ELSE a1
      a3 == IF ~aggregate_job /\ ~(neg # {} /\ pos # {}) THEN FALSE ELSE a2
  IN IF singlearch \cap Range(packages) # {} THEN FALSE ELSE a3

\* PriorityDelta with the emu delta added to the others instead of replacing them
PriorityDelta_EmuAdds(flavor, inc) ==
  LET d1 == IF EndsWith(flavor, <<"Minimal">>) THEN 0 - 5 ELSE 0
      d2 == IF ~inc.staging THEN d1 + 10 ELSE d1
  IN IF inc.emu THEN d2 - 20 ELSE d2

\* incidents.py 238-243: the delta of a flavor without override_priority
PriorityDelta(flavor, inc) ==
  LET d1 == IF EndsWith(flavor, <<"Minimal">>) THEN 0 - 5 ELSE 0
      d2 == IF ~inc.staging THEN d1 + 10 ELSE d1
  IN IF inc.emu THEN 0 - 20 ELSE d2

\* incidents.py 233-246: the settings after the priority block
WithPriority(openqa, data, flavor, inc) ==
  LET delta_prio == Get(data, "override_priority", 0)
  IN IF delta_prio # 0 THEN openqa
     ELSE IF PriorityDelta(flavor, inc) # 0
       THEN Put(openqa, "_PRIORITY", BASE_PRIO + PriorityDelta(flavor, inc))
     ELSE openqa

\* sorted(S, reverse=True) for a set S of distinct strings
RECURSIVE SortedStrsDescending(_)
SortedStrsDescending(S) ==
  IF S = {} THEN <<>>
  ELSE LET m == CHOOSE x \in S : \A y \in S \ {x} : StrLess(y, x)
       IN <<m>> \o SortedStrsDescending(S \ {m})

\* IncidentRepo with the URLs in descending order
IncidentRepo_Descending(inc, channels_set) ==
  Join(",", SortedStrsDescending({<<DOWNLOAD_BASE, Str(inc.id), "/SUSE_Updates_">>
                                    \o Join("_", _repo_osuse(chan)) : chan \in channels_set}))

\* incidents.py 205-211
IncidentRepo(inc, channels_set) ==
  Join(",", SortedStrs({<<DOWNLOAD_BASE, Str(inc.id), "/SUSE_Updates_">>
                          \o Join("_", _repo_osuse(chan)) : chan \in channels_set}))

\* ------------------------------------------------------------------- state
VARIABLES
  raws,             \* the raw incident records of the tracking service
  host,             \* the repository metadata host
  settings,         \* the template's global settings
  config,           \* config["FLAVOR"]: a sequence of [name, data]
  singlearch,       \* extrasettings: the single-architecture packages
  filter_embargoed, \* BaseConf.filter_embargoed()
  ci_url,           \* <<>> for None
  ignore_onetime,
  dashboard,        \* incident id -> the dashboard's answer
  cloud,            \* the cloud-image collaborators
  pc,               \* "init", "load", "call", "returned", "raised"
  flavors,          \* Incidents.flavors
  built,            \* the outcome of Incident(raw) for each raw so far
  incidents,        \* the Incidents constructed, in order
  fi, ai, ii,       \* the positions of the three loops of __call__
  ret,              \* __call__'s ret
  log,              \* per triple visited: where it stopped, whether it asked the dashboard
  pint_cache,       \* the URLs that lru_cache holds a pint_query result for
  fetched,          \* the cloud-image URLs fetched so far, in order
  pint_calls        \* per call of apply_publiccloud_pint_image: the settings given and got

vars == <<raws, host, settings, config, singlearch, filter_embargoed, ci_url,
          ignore_onetime, dashboard, cloud, pc, flavors, built, incidents,
          fi, ai, ii, ret, log, pint_cache, fetched, pint_calls>>

inputs == <<raws, host, settings, config, singlearch, filter_embargoed, ci_url,
            ignore_onetime, dashboard, cloud>>

DashboardAnswer(inc) ==
  IF inc.id \in DOMAIN dashboard THEN dashboard[inc.id] ELSE [kind |-> "jobs", jobs |-> <<>>]

\* incidents.py 108-126: the request as first filled in
FirstPost(flavor, arch, inc) ==
  LET openqa == ("ARCH" :> arch) @@ ("FLAVOR" :> flavor)
                @@ ("VERSION" :> settings["VERSION"]) @@ ("DISTRI" :> settings["DISTRI"])
                @@ ("_ONLY_OBSOLETE_SAME_BUILD" :> <<"1">>) @@ ("_OBSOLETE" :> <<"1">>)
                @@ ("INCIDENT_ID" :> inc.id) @@ settings
  IN [api |-> "api/incident_settings",
      qem |-> [incident |-> inc.id, arch |-> arch, flavor |-> flavor,
               version |-> settings["VERSION"]],
      openqa |-> IF ci_url # <<>> THEN Put(openqa, "__CI_JOB_URL", ci_url) ELSE openqa]

\* WithBuild labelling the build with the last package instead of the first
WithBuild_LastPackage(openqa, inc, revs) ==
  LET o1 == IF inc.livepatch THEN Put(openqa, "KGRAFT", <<"1">>) ELSE openqa
      o2 == Put(o1, "BUILD", <<":", Str(inc.id), ":">> \o inc.packages[Len(inc.packages)])
      o3 == IF ~inc.rrid.none THEN Put(o2, "RRID", inc.rrid.val) ELSE o2
  IN Put(o3, "REPOHASH", revs.val)

\* incidents.py 139-151: KGRAFT, BUILD, RRID and REPOHASH
WithBuild(openqa, inc, revs) ==
  LET o1 == IF inc.livepatch THEN Put(openqa, "KGRAFT", <<"1">>) ELSE openqa
      o2 == Put(o1, "BUILD", <<":", Str(inc.id), ":">> \o inc.packages[1])
      o3 == IF ~inc.rrid.none THEN Put(o2, "RRID", inc.rrid.val) ELSE o2
  IN Put(o3, "REPOHASH", revs.val)

\* MatchedIssues comparing product and version only
MatchedIssues_AnyArch(issues, arch, inc) ==
  {i \in 1..Len(issues) :
     \E c \in Range(inc.channels) :
       c.product = issues[i].value.product /\ c.version = issues[i].value.version}

\* incidents.py 155-160: the positions of the issues whose channel the incident has
MatchedIssues(issues, arch, inc) ==
  {i \in 1..Len(issues) :
     Repos(issues[i].value.product, issues[i].value.version, arch) \in Range(inc.channels)}

\* RequiredIssuesGate reading every issue key of the flavor, matched or not
RequiredIssuesGate_AllIssues(data, issue_keys) ==
  /\ Has(data, "required_issues")
  /\ {data["issues"][i].key : i \in 1..Len(data["issues"])} \cap data["required_issues"] = {}

\* incidents.py 168-170: TRUE when the required-issues gate drops the triple
RequiredIssuesGate(data, issue_keys) ==
  Has(data, "required_issues") /\ issue_keys \cap data["required_issues"] = {}

\* incidents.py 202-211: the matched issue keys and INCIDENT_REPO
WithIssues(openqa, issues, arch, inc, matched) ==
  LET o1 == [k \in {issues[i].key : i \in matched} |-> Str(inc.id)] @@ openqa
      channels_set == {Repos(issues[i].value.product, issues[i].value.version, arch) :
                         i \in matched}
  IN Put(o1, "INCIDENT_REPO", IncidentRepo(inc, channels_set))

\* incidents.py 233-257: priority, params_expand and the two URLs
FinalSettings(openqa, data, flavor, inc) ==
  LET o3 == WithPriority(openqa, data, flavor, inc)
      o4 == IF Has(data, "params_expand") THEN Update(o3, data["params_expand"]) ELSE o3
  IN ("__SMELT_INCIDENT_URL" :> <<"https://smelt.suse.de/incident/", Str(inc.id)>>)
     @@ ("__DASHBOARD_INCIDENT_URL" :> <<"QEM_DASHBOARD", "incident/", Str(inc.id)>>)
     @@ o4

\* StagingFilter that drops nothing
StagingFilter_Never(inc) == FALSE

\* incidents.py 128-129: TRUE when the staging filter drops the triple
StagingFilter(inc) == inc.staging

\* AllowListFilter matching kernel-livepatch-tools like any other package
AllowListFilter_Plain(data, inc) ==
  /\ Has(data, "packages")
  /\ ~\E i \in 1..Len(inc.packages) : \E j \in 1..Len(data["packages"]) :
        StartsWith(inc.packages[i], data["packages"][j])

\* incidents.py 131-133: TRUE when the package allow-list drops the triple
AllowListFilter(data, inc) ==
  Has(data, "packages") /\ ~contains_package(inc.packages, data["packages"])

\* DenyListFilter looking at the first package only
DenyListFilter_First(data, inc) ==
  Has(data, "excluded_packages")
    /\ contains_package(<<inc.packages[1]>>, data["excluded_packages"])

\* incidents.py 135-137: TRUE when the package deny-list drops the triple
DenyListFilter(data, inc) ==
  Has(data, "excluded_packages")
    /\ contains_package(inc.packages, data["excluded_packages"])

\* The body of the innermost loop of Incidents.__call__ for one (flavor,
\* arch, incident): where it stopped ("emitted" when it appended a request),
\* whether it queried the dashboard, and the request.
\* incidents.py 274-276: the request of the triple
Emit(final, urls, cache, calls, post, agg, asked) ==
  [stop |-> "emitted", queried |-> asked, fetched |-> urls, cache |-> cache,
   calls |-> calls,
   post |-> [api |-> post.api,
             qem |-> ("withAggregate" :> agg) @@ ("settings" :> final) @@ post.qem,
             openqa |-> final]]

\* incidents.py 271-273: no request without PUBLIC_CLOUD_IMAGE_ID
AfterPint(tooled, pint, urls, post, agg, asked) ==
  IF ~Truthy(pint.settings, "PUBLIC_CLOUD_IMAGE_ID")
    THEN [stop |-> "pint_image", queried |-> asked, fetched |-> urls \o pint.fetched,
          cache |-> pint.cache, calls |-> <<[given |-> tooled, got |-> pint.settings]>>]
  ELSE Emit(pint.settings, urls \o pint.fetched, pint.cache,
            <<[given |-> tooled, got |-> pint.settings]>>, post, agg, asked)

\* incidents.py 269-270: the pint query of the settings, when they hold one
PintQueryStep(tooled, urls, post, agg, asked) ==
  IF Has(tooled, "PUBLIC_CLOUD_PINT_QUERY")
    THEN AfterPint(tooled, apply_publiccloud_pint_image(tooled, cloud, pint_cache),
                   urls, post, agg, asked)
  ELSE Emit(tooled, urls, pint_cache, <<>>, post, agg, asked)

\* incidents.py 265-267: no request without PUBLIC_CLOUD_TOOLS_IMAGE_BASE
AfterTools(tooled, urls, post, agg, asked) ==
  IF ~Truthy(tooled, "PUBLIC_CLOUD_TOOLS_IMAGE_BASE")
    THEN [stop |-> "tools_image", queried |-> asked, fetched |-> urls,
          cache |-> pint_cache, calls |-> <<>>]
  ELSE PintQueryStep(tooled, urls, post, agg, asked)

\* AsksDashboard with the test of ignore_onetime behind the query
AsksDashboard_Always(ignore) == TRUE

\* incidents.py 171: "not ignore_onetime and self._is_scheduled_job(...)"
\* calls _is_scheduled_job, and with it the dashboard, unless ignore_onetime
AsksDashboard(ignore) == ~ignore

Body(flavor, data, arch, inc) ==
  LET post == FirstPost(flavor, arch, inc)
      revs == revisions_with_fallback(inc.revisions, arch, settings["VERSION"])
      built_o == WithBuild(post.openqa, inc, revs)
      matched == MatchedIssues(data["issues"], arch, inc)
      issue_keys == {data["issues"][i].key : i \in matched}
      asked == AsksDashboard(ignore_onetime)
      o2 == WithIssues(built_o, data["issues"], arch, inc, matched)
      agg == WithAggregate(data, DOMAIN o2, singlearch, inc.packages)
      o6 == FinalSettings(o2, data, flavor, inc)
      Stop(why, q) == [stop |-> why, queried |-> q, fetched |-> <<>>, cache |-> pint_cache,
                       calls |-> <<>>]
  IN IF filter_embargoed /\ inc.embargoed THEN Stop("embargoed", FALSE)
     ELSE IF StagingFilter(inc) THEN Stop("staging", FALSE)
     ELSE IF AllowListFilter(data, inc) THEN Stop("packages", FALSE)
     ELSE IF DenyListFilter(data, inc) THEN Stop("excluded_packages", FALSE)
     ELSE IF revs.none THEN Stop("revisions", FALSE)
     ELSE IF ~Has(data, "issues") THEN Stop("KeyError", FALSE)
     ELSE IF matched = {} THEN Stop("issues", FALSE)
     ELSE IF RequiredIssuesGate(data, issue_keys) THEN Stop("required_issues", FALSE)
     ELSE IF ~ignore_onetime
             /\ _is_scheduled_job(DashboardAnswer(inc), inc, arch, settings["VERSION"], flavor)
       THEN Stop("scheduled", TRUE)
     ELSE IF KernelGate(flavor, inc, issue_keys) THEN Stop("kernel", asked)
     ELSE IF Has(o6, "PUBLIC_CLOUD_TOOLS_IMAGE_QUERY")
       THEN AfterTools(apply_pc_tools_image(o6, cloud),
                       <<o6["PUBLIC_CLOUD_TOOLS_IMAGE_QUERY"]>>, post, agg, asked)
     ELSE PintQueryStep(o6, <<>>, post, agg, asked)

\* ------------------------------------------------------------------ inputs
\* "SUSE:Updates:f1:f2:..." for the fields f1, f2, ...
RECURSIVE ColonFields(_)
ColonFields(fields) ==
  IF fields = <<>> THEN <<>> ELSE <<Colon>> \o Head(fields) \o ColonFields(Tail(fields))

Chan(fields) == UpdatesPrefix \o ColonFields(fields)

Foo == <<"FOO">>
Bar == <<"BAR">>
OpenSuse == <<"openSUSE", "-SLE">>
V1 == <<"1">>
V2 == <<"2">>
V15 == <<"15">>
V154 == <<"15", ".", "4">>

ChanFooX86 == Chan(<<Foo, V1, X86>>)
ChanFooArm == Chan(<<Foo, V1, Aarch64>>)
ChanBarX86 == Chan(<<Bar, V2, X86>>)

ChannelStrings ==
  {ChanFooX86, ChanFooArm, ChanBarX86,
   Chan(<<OpenSuse, V154>>),
   Chan(<<ManagerServerProduct, V15, Aarch64>>),
   Chan(<<ManagerServerProduct, V15, X86>>),
   Chan(<<DevToolsProduct, V15, X86>>),
   Chan(<<DevToolsProduct, V15>>),
   <<"SUSE", Colon, "Updates", "X", Colon, "FOO", Colon, "1", Colon, "x86_64">>,
   <<"SUSE", Colon, "X", Colon, "FOO", Colon, "1", Colon, "x86_64">>,
   Chan(<<Foo>>),
   Chan(<<Foo, V1, X86, <<"extra">>>>)}

Bash == <<"bash">>
Vim == <<"vim">>
Zsh == <<"zsh">>
Kgraft == <<"kgraft-patch-", "x">>
LivepatchTools == <<"kernel-livepatch", "-tools">>
KernelDefault == <<"kernel-default">>
KernelDefaultBase == <<"kernel-default", "-base">>

PackageNames ==
  {Bash, Vim, Zsh, Kgraft, LivepatchTools, KernelDefault, KernelDefaultBase,
   <<"kernel-source">>, <<"kernel-azure">>}

Project(number) == <<"SUSE", Colon, "Maintenance", Colon, Str(number)>>

MkRaw(number, channels, packages, inReview, embargoed, emu, rr) ==
  [number |-> number, rr_number |-> rr, project |-> Project(number),
   inReview |-> inReview, embargoed |-> embargoed, emu |-> emu,
   channels |-> channels, packages |-> packages]

HostAnswers ==
  {[kind |-> "rev", rev |-> r] : r \in 0..MaxRev}
    \cup {[kind |-> k] : k \in {"notok", "neterr", "parseerr", "norev", "badrev"}}

HostAll(ans) == [dflt |-> ans, over |-> <<>>]

FlavorNames ==
  {<<"Server", "-", "Updates">>, <<"Server", "-", "Minimal">>,
   <<"Minimal", "-", "Updates">>, <<"Kernel", "-", "Updates">>,
   <<"Server", "-", "Kernel", "-", "Minimal">>, <<"Server", "-", "Kernel", "-", "Azure">>,
   <<"Azure", "-", "Kernel">>, <<"Azure">>}

Issue(key, product, version) == [key |-> key, value |-> product \o <<Colon>> \o version]

BaseData == [archs |-> <<X86>>, issues |-> <<Issue("OS_TEST_ISSUES", Foo, V1)>>]

Flavor(name, data) == [name |-> name, data |-> data]

NoJobs == <<>>

PintAll(ans) == [active |-> ans, inactive |-> ans, deprecated |-> ans]

NoImages == [kind |-> "images", images |-> <<>>]

Base ==
  [raws |-> <<MkRaw(1, <<ChanFooX86>>, <<Bash>>, TRUE, FALSE, FALSE, 0)>>,
   host |-> HostAll([kind |-> "rev", rev |-> 1]),
   settings |-> [VERSION |-> V1, DISTRI |-> <<"sle">>],
   config |-> <<Flavor(<<"Server", "-", "Updates">>, BaseData)>>,
   singlearch |-> {},
   filter_embargoed |-> TRUE,
   ci_url |-> <<>>,
   ignore_onetime |-> FALSE,
   dashboard |-> NoJobs,
   cloud |-> [tools |-> [kind |-> "none"], pint |-> PintAll(NoImages)]]

\* raw records of every channel list, with and without packages
FamChannels ==
  {[Base EXCEPT !.raws = <<MkRaw(1, ch, pk, TRUE, FALSE, FALSE, 0)>>] :
     ch \in SeqsUpTo(ChannelStrings, MaxChannels), pk \in {<<>>, <<Bash>>}}

\* raw records of every package list
FamPackages ==
  {[Base EXCEPT !.raws = <<MkRaw(1, <<ChanFooX86>>, pk, TRUE, FALSE, FALSE, 0)>>] :
     pk \in SeqsUpTo(PackageNames, MaxPackages)}

\* flavor names, issue keys and override_priority against the incident's flags
FamPriority ==
  {[Base EXCEPT
      !.raws = <<MkRaw(1, <<ChanFooX86>>, <<pk>>, fl[1], fl[2], fl[3], 0)>>,
      !.config = <<Flavor(name,
                     IF prio = 0 - 1 THEN [BaseData EXCEPT !.issues = <<Issue(key, Foo, V1)>>]
                     ELSE ("override_priority" :> prio)
                          @@ [BaseData EXCEPT !.issues = <<Issue(key, Foo, V1)>>])>>,
      !.filter_embargoed = opt[1],
      !.ignore_onetime = opt[2]] :
     name \in FlavorNames, key \in {"OS_TEST_ISSUES", "FOO_TEST_ISSUES"},
     prio \in {0 - 1, 0, 5, 50}, pk \in {Bash, Kgraft},
     fl \in BOOLEAN \X BOOLEAN \X BOOLEAN, opt \in BOOLEAN \X BOOLEAN}

Job(flavor, arch, repohash) ==
  [flavor |-> flavor, arch |-> arch, settings |-> [REPOHASH |-> repohash]]

DashAnswers ==
  {[kind |-> "exception"], [kind |-> "error"], [kind |-> "jobs", jobs |-> <<>>]}
    \cup {[kind |-> "jobs", jobs |-> <<Job(f, a, r)>>] :
            f \in {<<"Server", "-", "Updates">>, <<"Azure">>}, a \in {X86, Aarch64},
            r \in 1..MaxRev}
    \cup {[kind |-> "jobs", jobs |-> <<[flavor |-> <<"Server", "-", "Updates">>],
                                       Job(<<"Server", "-", "Updates">>, X86, 1)>>]}

\* the dashboard's answers against the resolved revisions
FamScheduled ==
  {[Base EXCEPT
      !.raws = <<MkRaw(1, ch, <<Bash>>, TRUE, FALSE, FALSE, 0)>>,
      !.host = HostAll(ans),
      !.settings = [VERSION |-> ver, DISTRI |-> <<"sle">>],
      !.dashboard = (1 :> dash),
      !.ignore_onetime = ign] :
     ch \in {<<ChanFooX86>>, <<ChanFooX86, ChanFooArm>>},
     ans \in {[kind |-> "rev", rev |-> r] : r \in 0..MaxRev} \cup {[kind |-> "notok"]},
     ver \in {V1, V2}, dash \in DashAnswers, ign \in BOOLEAN}

\* several incidents, flavors and archs
SomeRaws(n) ==
  {MkRaw(n, <<ChanFooX86>>, <<Bash>>, TRUE, FALSE, FALSE, 0),
   MkRaw(n, <<ChanFooX86, ChanFooArm>>, <<Kgraft>>, TRUE, FALSE, FALSE, n),
   MkRaw(n, <<ChanFooX86>>, <<Bash>>, FALSE, FALSE, FALSE, 0),
   MkRaw(n, <<>>, <<Bash>>, TRUE, FALSE, FALSE, 0)}

RawLists == UNION {{rs \in [1..k -> UNION {SomeRaws(n) : n \in 1..k}] :
                      \A i \in 1..k : rs[i].number = i} : k \in 0..MaxIncidents}

FamMany ==
  {[Base EXCEPT !.raws = rs, !.config = cf] :
     rs \in RawLists,
     cf \in {<<Flavor(<<"Server", "-", "Updates">>, [BaseData EXCEPT !.archs = <<X86, Aarch64>>])>>,
             <<Flavor(<<"Server", "-", "Updates">>, BaseData),
               Flavor(<<"Kernel", "-", "Updates">>, [BaseData EXCEPT !.archs = <<Aarch64, X86>>])>>,
             <<Flavor(<<"Server", "-", "Updates">>, BaseData),
               Flavor(<<"Azure">>, [issues |-> <<Issue("OS_TEST_ISSUES", Foo, V1)>>])>>,
             <<Flavor(<<"Server", "-", "Updates">>, [archs |-> <<X86>>])>>}}

\* the images that the pint collaborator knows
PintImage(name, state, region, publishedon, id) ==
  [name |-> name, state |-> state, region |-> region, publishedon |-> publishedon, id |-> id]

Sles == <<"sles", "-15">>
South == <<"south">>
ImgOld == PintImage(Sles, <<"active">>, South, 1, <<"ami-1">>)
ImgNew == PintImage(Sles, <<"active">>, South, 2, <<"ami-2">>)
ImgSap == PintImage(Sles \o <<"-sap">>, <<"active">>, South, 2, <<"ami-3">>)
ImgNorth == PintImage(Sles, <<"active">>, <<"north">>, 3, <<"ami-4">>)
ImgOther == PintImage(<<"rhel">>, <<"active">>, South, 3, <<"ami-5">>)
ImgInactive == PintImage(Sles, <<"inactive">>, South, 3, <<"ami-6">>)

PintImages == {ImgOld, ImgNew, ImgSap, ImgNorth, ImgOther, ImgInactive}

\* the active images listed, with one inactive image behind them
PintListed ==
  {[active |-> [kind |-> "images", images |-> l],
    inactive |-> [kind |-> "images", images |-> <<ImgInactive>>],
    deprecated |-> [kind |-> "raise"]] : l \in SeqsUpTo(PintImages, MaxImages)}

PintGood == [PintAll(NoImages) EXCEPT !.active = [kind |-> "images", images |-> <<ImgOld>>]]

PintAnswers ==
  {PintAll([kind |-> "raise"]), PintAll(NoImages), PintGood,
   [PintAll(NoImages) EXCEPT !.active = [kind |-> "noimages"]],
   [PintAll(NoImages) EXCEPT !.inactive = [kind |-> "raise"]],
   [PintAll(NoImages) EXCEPT !.deprecated = [kind |-> "images", images |-> <<ImgOld>>]]}

\* settings with cloud-image queries against the collaborators' answers
CloudSettings ==
  {[VERSION |-> V1, DISTRI |-> <<"sle">>,
    PUBLIC_CLOUD_TOOLS_IMAGE_QUERY |-> <<"tools-query">>],
   [VERSION |-> V1, DISTRI |-> <<"sle">>,
    PUBLIC_CLOUD_PINT_QUERY |-> <<"pint-query">>, PUBLIC_CLOUD_PINT_NAME |-> Sles,
    PUBLIC_CLOUD_PINT_FIELD |-> "id"],
   [VERSION |-> V1, DISTRI |-> <<"sle">>,
    PUBLIC_CLOUD_TOOLS_IMAGE_QUERY |-> <<"tools-query">>,
    PUBLIC_CLOUD_PINT_QUERY |-> <<"pint-query">>, PUBLIC_CLOUD_PINT_NAME |-> Sles,
    PUBLIC_CLOUD_PINT_REGION |-> South, PUBLIC_CLOUD_PINT_FIELD |-> "id"]}

ToolsAnswers ==
  {[kind |-> "image", image |-> <<"publiccloud_tools_", "1", ".qcow2">>],
   [kind |-> "none"], [kind |-> "raise"]}

\* settings that hold a tools image of their own beside the query
PresetToolsSettings ==
  [VERSION |-> V1, DISTRI |-> <<"sle">>,
   PUBLIC_CLOUD_TOOLS_IMAGE_QUERY |-> <<"tools-query">>,
   PUBLIC_CLOUD_TOOLS_IMAGE_BASE |-> Some(<<"publiccloud_tools_", "0", ".qcow2">>)]

\* two flavors, the first of which alone asks for a cloud image
CloudConfigs ==
  {<<Flavor(<<"Server", "-", "Updates">>, BaseData)>>,
   <<Flavor(<<"Azure">>,
            ("params_expand" :> [PUBLIC_CLOUD_TOOLS_IMAGE_QUERY |-> <<"tools-query">>])
              @@ BaseData),
     Flavor(<<"Server", "-", "Updates">>, BaseData)>>,
   <<Flavor(<<"Azure">>,
            ("params_expand" :> [PUBLIC_CLOUD_PINT_QUERY |-> <<"pint-query">>,
                                 PUBLIC_CLOUD_PINT_NAME |-> Sles,
                                 PUBLIC_CLOUD_PINT_FIELD |-> "id"])
              @@ BaseData),
     Flavor(<<"Server", "-", "Updates">>, BaseData)>>}

FamCloud ==
  {[Base EXCEPT !.settings = st, !.config = cf, !.cloud = [tools |-> t, pint |-> pn]] :
     st \in CloudSettings \cup {PresetToolsSettings, Base.settings}, cf \in CloudConfigs,
     t \in ToolsAnswers, pn \in {PintAll([kind |-> "raise"]), PintAll(NoImages), PintGood}}

\* the settings of a pint query: with and without a region, a field and a
\* name, and with a PUBLIC_CLOUD_REGION of their own
PintQuery ==
  [VERSION |-> V1, DISTRI |-> <<"sle">>,
   PUBLIC_CLOUD_PINT_QUERY |-> <<"pint-query">>, PUBLIC_CLOUD_PINT_NAME |-> Sles,
   PUBLIC_CLOUD_PINT_FIELD |-> "id"]

PintSettings ==
  {PintQuery,
   ("PUBLIC_CLOUD_PINT_REGION" :> South) @@ PintQuery,
   ("PUBLIC_CLOUD_PINT_REGION" :> <<>>) @@ PintQuery,
   ("PUBLIC_CLOUD_REGION" :> <<"west">>) @@ PintQuery,
   ("PUBLIC_CLOUD_REGION" :> <<"west">>) @@ ("PUBLIC_CLOUD_PINT_REGION" :> South) @@ PintQuery,
   ("PUBLIC_CLOUD_PINT_FIELD" :> "arn") @@ PintQuery,
   Del(("PUBLIC_CLOUD_PINT_REGION" :> South) @@ PintQuery, "PUBLIC_CLOUD_PINT_FIELD"),
   Del(PintQuery, "PUBLIC_CLOUD_PINT_NAME")}

\* one or two incidents, and with them one or two triples with the queries
CloudRaws ==
  {<<MkRaw(1, <<ChanFooX86>>, <<Bash>>, TRUE, FALSE, FALSE, 0)>>,
   <<MkRaw(1, <<ChanFooX86>>, <<Bash>>, TRUE, FALSE, FALSE, 0),
     MkRaw(2, <<ChanFooX86>>, <<Bash>>, TRUE, FALSE, FALSE, 0)>>}

FamPint ==
  {[Base EXCEPT !.raws = rs, !.settings = st,
                !.cloud = [tools |-> [kind |-> "none"], pint |-> pn]] :
     rs \in CloudRaws, st \in PintSettings, pn \in PintAnswers}
    \cup {[Base EXCEPT !.settings = st,
                       !.cloud = [tools |-> [kind |-> "none"], pint |-> pn]] :
            st \in {PintQuery, ("PUBLIC_CLOUD_PINT_REGION" :> South) @@ PintQuery},
            pn \in PintListed}
    \cup {[Base EXCEPT !.raws = rs, !.settings = st,
                       !.cloud = [tools |-> t, pint |-> PintGood]] :
            rs \in CloudRaws, st \in CloudSettings, t \in ToolsAnswers}

\* the metadata host answering each repository of a group on its own: the
\* FOO repository as the host is told to, every other one by default
ChanBar1X86 == Chan(<<Bar, V1, X86>>)

FooUrl == compute_url(Repos(Foo, V1, X86), X86, Project(1))

FamRevisions ==
  {[Base EXCEPT
      !.raws = <<MkRaw(1, ch, <<Bash>>, TRUE, FALSE, FALSE, 0)>>,
      !.host = [dflt |-> a0, over |-> (FooUrl :> a1)]] :
     ch \in {<<ChanFooX86>>, <<ChanFooX86, ChanBar1X86>>, <<ChanBar1X86, ChanFooX86>>,
             <<ChanBarX86, ChanFooX86>>},
     a0 \in HostAnswers, a1 \in HostAnswers}

\* revisions recorded under one or two versions of an arch against the
\* version of the template, on two archs
FamFallback ==
  {[Base EXCEPT
      !.raws = <<MkRaw(1, ch, <<Bash>>, TRUE, FALSE, FALSE, 0)>>,
      !.host = [dflt |-> [kind |-> "rev", rev |-> r0],
                over |-> (FooUrl :> [kind |-> "rev", rev |-> r1])],
      !.settings = [VERSION |-> ver, DISTRI |-> <<"sle">>],
      !.config = <<Flavor(<<"Server", "-", "Updates">>,
                          [BaseData EXCEPT !.archs = <<X86, Aarch64>>])>>] :
     ch \in {<<ChanFooX86, ChanBarX86>>, <<ChanBarX86, ChanFooX86>>,
             <<ChanBarX86, ChanFooArm>>, <<ChanFooX86, ChanFooArm>>},
     r0 \in 0..MaxRev, r1 \in 0..MaxRev, ver \in {V1, V2, <<"3">>}}

\* package allow-lists and deny-lists against the incident's packages
PrefixLists ==
  {<<>>, <<Bash>>, <<<<"kernel-livepatch">>>>, <<Vim, <<"kernel-default">>>>,
   <<<<"kernel-livepatch">>, Bash>>}

ListedData ==
  {BaseData} \cup {("packages" :> l) @@ BaseData : l \in PrefixLists}
    \cup {("excluded_packages" :> l) @@ BaseData : l \in PrefixLists}
    \cup {("packages" :> l[1]) @@ ("excluded_packages" :> l[2]) @@ BaseData :
            l \in PrefixLists \X PrefixLists}

FamLists ==
  {[Base EXCEPT
      !.raws = <<MkRaw(1, <<ChanFooX86>>, pk, TRUE, FALSE, FALSE, 0)>>,
      !.config = <<Flavor(<<"Server", "-", "Updates">>, data)>>] :
     pk \in SeqsUpTo({Bash, LivepatchTools, KernelDefaultBase}, MaxPackages) \ {<<>>},
     data \in ListedData}

\* several issues, some of the same product and version, against the channels
\* of the incident, with and without required_issues
IssueEntries ==
  {Issue("OS_TEST_ISSUES", Foo, V1), Issue("BAR_TEST_ISSUES", Bar, V2),
   Issue("SDK_TEST_ISSUES", Foo, V1), Issue("LEAP_TEST_ISSUES", OpenSuse, V154)}

IssueLists ==
  {l \in SeqsUpTo(IssueEntries, 3) : l # <<>> /\ \A i, j \in 1..Len(l) : l[i] = l[j] => i = j}

IssueChannels ==
  {<<ChanFooX86>>, <<ChanBarX86>>, <<ChanFooX86, ChanBarX86>>, <<ChanBarX86, ChanFooX86>>,
   <<ChanFooArm, Chan(<<OpenSuse, V154>>)>>, <<Chan(<<OpenSuse, V154>>), ChanFooX86, ChanBarX86>>}

RequiredSets == {{}, {"OS_TEST_ISSUES"}, {"BAR_TEST_ISSUES"}, {"SDK_TEST_ISSUES", "LEAP_TEST_ISSUES"}}

FamIssues ==
  {[Base EXCEPT
      !.raws = <<MkRaw(1, ch, <<Bash>>, TRUE, FALSE, FALSE, 0)>>,
      !.config = <<Flavor(<<"Server", "-", "Updates">>, data)>>] :
     ch \in IssueChannels,
     data \in {[archs |-> <<X86, Aarch64>>, issues |-> l] : l \in IssueLists}
              \cup {[archs |-> <<X86, Aarch64>>, issues |-> l, required_issues |-> rq] :
                      l \in IssueLists, rq \in RequiredSets}}

\* aggregate_job and the two trigger sets against the keys of the settings and
\* the single-architecture packages
TriggerSets == {{}, {"KGRAFT"}, {"_PRIORITY"}, {"OS_TEST_ISSUES", "NOPE"}}

AggregateData ==
  {BaseData}
    \cup {("aggregate_job" :> job) @@ BaseData : job \in BOOLEAN}
    \cup {("aggregate_job" :> job) @@ ("aggregate_check_true" :> pos) @@ BaseData :
            job \in BOOLEAN, pos \in TriggerSets}
    \cup {("aggregate_job" :> job) @@ ("aggregate_check_false" :> neg) @@ BaseData :
            job \in BOOLEAN, neg \in TriggerSets}
    \cup {("aggregate_job" :> job) @@ ("aggregate_check_true" :> pos)
              @@ ("aggregate_check_false" :> neg) @@ BaseData :
            job \in BOOLEAN, pos \in TriggerSets, neg \in TriggerSets}
    \cup {("aggregate_check_true" :> pos) @@ ("aggregate_check_false" :> neg) @@ BaseData :
            pos \in TriggerSets, neg \in TriggerSets}

FamAggregate ==
  {[Base EXCEPT
      !.raws = <<MkRaw(1, <<ChanFooX86>>, pk, TRUE, FALSE, FALSE, 0)>>,
      !.config = <<Flavor(<<"Server", "-", "Updates">>, data)>>,
      !.singlearch = single] :
     pk \in {<<Bash>>, <<Kgraft>>, <<Kgraft, Bash>>},
     data \in AggregateData,
     single \in {{}, {Bash}, {Zsh, Kgraft}}}

Scenarios ==
  FamChannels \cup FamPackages \cup FamPriority \cup FamScheduled \cup FamMany \cup FamCloud
    \cup FamPint \cup FamRevisions \cup FamFallback \cup FamLists \cup FamIssues \cup FamAggregate

Init ==
  \E sc \in Scenarios :
    /\ raws = sc.raws
    /\ host = sc.host
    /\ settings = sc.settings
    /\ config = sc.config
    /\ singlearch = sc.singlearch
    /\ filter_embargoed = sc.filter_embargoed
    /\ ci_url = sc.ci_url
    /\ ignore_onetime = sc.ignore_onetime
    /\ dashboard = sc.dashboard
    /\ cloud = sc.cloud
    /\ pc = "init"
    /\ flavors = <<>>
    /\ built = <<>>
    /\ incidents = <<>>
    /\ fi = 1
    /\ ai = 1
    /\ ii = 1
    /\ ret = <<>>
    /\ log = <<>>
    /\ pint_cache = {}
    /\ fetched = <<>>
    /\ pint_calls = <<>>

\* ----------------------------------------------------------------- actions
\* Incidents.__init__
IncidentsInit ==
  /\ pc = "init"
  /\ flavors' = [i \in 1..Len(config) |->
                   [name |-> config[i].name, data |-> normalize_repos(config[i].data)]]
  /\ pc' = "load"
  /\ UNCHANGED <<inputs, built, incidents, fi, ai, ii, ret, log, pint_cache, fetched, pint_calls>>

\* Incident(raw) for the next raw record; a record whose construction raises
\* yields no Incident.
Construct ==
  /\ pc = "load"
  /\ Len(built) < Len(raws)
  /\ LET res == Incident(raws[Len(built) + 1], host)
     IN /\ built' = Append(built, res)
        /\ incidents' = IF res.tag = "ok" THEN Append(incidents, res.inc) ELSE incidents
  /\ UNCHANGED <<inputs, pc, flavors, fi, ai, ii, ret, log, pint_cache, fetched, pint_calls>>

\* Incidents.__call__ is entered
Call ==
  /\ pc = "load"
  /\ Len(built) = Len(raws)
  /\ pc' = "call"
  /\ UNCHANGED <<inputs, flavors, built, incidents, fi, ai, ii, ret, log, pint_cache, fetched, pint_calls>>

\* RetAppend putting the request in front
RetAppend_InFront(r, post) == <<post>> \o r

\* incidents.py 276: ret.append(full_post)
RetAppend(r, post) == Append(r, post)

\* one pass of the innermost loop
Triple ==
  /\ pc = "call"
  /\ fi <= Len(flavors)
  /\ Has(flavors[fi].data, "archs")
  /\ ai <= Len(flavors[fi].data["archs"])
  /\ ii <= Len(incidents)
  /\ LET out == Body(flavors[fi].name, flavors[fi].data,
                     flavors[fi].data["archs"][ai], incidents[ii])
     IN /\ log' = Append(log, [fi |-> fi, ai |-> ai, ii |-> ii,
                               stop |-> out.stop, queried |-> out.queried])
        /\ ret' = IF out.stop = "emitted" THEN RetAppend(ret, out.post) ELSE ret
        /\ pc' = IF out.stop = "KeyError" THEN "raised" ELSE pc
        /\ pint_cache' = out.cache
        /\ fetched' = fetched \o out.fetched
        /\ pint_calls' = pint_calls \o out.calls
  /\ ii' = ii + 1
  /\ UNCHANGED <<inputs, flavors, built, incidents, fi, ai>>

\* the incidents of this arch are exhausted: the next arch
NextArch ==
  /\ pc = "call"
  /\ fi <= Len(flavors)
  /\ Has(flavors[fi].data, "archs")
  /\ ai <= Len(flavors[fi].data["archs"])
  /\ ii > Len(incidents)
  /\ ai' = ai + 1
  /\ ii' = 1
  /\ UNCHANGED <<inputs, pc, flavors, built, incidents, fi, ret, log, pint_cache, fetched, pint_calls>>

\* the archs of this flavor are exhausted: the next flavor
NextFlavor ==
  /\ pc = "call"
  /\ fi <= Len(flavors)
  /\ Has(flavors[fi].data, "archs")
  /\ ai > Len(flavors[fi].data["archs"])
  /\ fi' = fi + 1
  /\ ai' = 1
  /\ ii' = 1
  /\ UNCHANGED <<inputs, pc, flavors, built, incidents, ret, log, pint_cache, fetched, pint_calls>>

\* data["archs"] of a flavor without archs: KeyError
NoArchs ==
  /\ pc = "call"
  /\ fi <= Len(flavors)
  /\ ~Has(flavors[fi].data, "archs")
  /\ pc' = "raised"
  /\ UNCHANGED <<inputs, flavors, built, incidents, fi, ai, ii, ret, log, pint_cache, fetched, pint_calls>>

\* return ret
Return ==
  /\ pc = "call"
  /\ fi > Len(flavors)
  /\ pc' = "returned"
  /\ UNCHANGED <<inputs, flavors, built, incidents, fi, ai, ii, ret, log, pint_cache, fetched, pint_calls>>

Next ==
  \/ IncidentsInit
  \/ Construct
  \/ Call
  \/ Triple
  \/ NextArch
  \/ NextFlavor
  \/ NoArchs
  \/ Return

Spec == Init /\ [][Next]_vars

\* ================================================================== claims
\* What the formulas below read off a state.
EmittedLog == {e \in Range(log) : e.stop = "emitted"}

FlavorOf(e) == flavors[e.fi].name

DataOf(e) == flavors[e.fi].data

ArchOf(e) == flavors[e.fi].data["archs"][e.ai]

IncOf(e) == incidents[e.ii]

\* the request appended for an emitted log entry: the requests are appended
\* in the order of the log
RequestOf(e) ==
  ret[Cardinality({k \in 1..Len(log) : log[k].stop = "emitted" /\
                     \E j \in k..Len(log) : log[j] = e})]

\* the raw record an Incident was built from
RawOf(inc) == CHOOSE r \in Range(raws) : r.number = inc.id

OverridePriority(e) == IF "override_priority" \in DOMAIN DataOf(e)
                         THEN DataOf(e)["override_priority"] ELSE 0

\* C1: every emitted request of a flavor with a non-zero override_priority P
\* carries _PRIORITY = P, whatever the flavor name and the emu flag.
C1_OverridePriorityWritten ==
  \A e \in EmittedLog :
    OverridePriority(e) # 0 =>
      /\ "_PRIORITY" \in DOMAIN RequestOf(e).openqa
      /\ RequestOf(e).openqa["_PRIORITY"] = OverridePriority(e)

\* the delta the claim states for a flavor without override_priority
ClaimedDelta(name, raw) ==
  IF raw.emu THEN 0 - 20
  ELSE (IF name[Len(name)] = "Minimal" THEN 0 - 5 ELSE 0) + (IF raw.inReview THEN 10 ELSE 0)

\* C2: every emitted request of a flavor without override_priority (absent
\* or 0) carries _PRIORITY = 50 + delta exactly when delta is non-zero, with
\* delta = -5 for a flavor ending in "Minimal", plus 10 for a non-staging
\* incident, replaced by -20 for an emu incident; no _PRIORITY otherwise.
C2_DefaultPriority ==
  \A e \in EmittedLog :
    OverridePriority(e) = 0 =>
      LET delta == ClaimedDelta(FlavorOf(e), RawOf(IncOf(e)))
          openqa == RequestOf(e).openqa
      IN /\ delta # 0 => "_PRIORITY" \in DOMAIN openqa /\ openqa["_PRIORITY"] = 50 + delta
         /\ delta = 0 => "_PRIORITY" \notin DOMAIN openqa
         /\ RawOf(IncOf(e)).emu => "_PRIORITY" \in DOMAIN openqa /\ openqa["_PRIORITY"] = 30

\* an emu incident scheduled for a flavor ending in "Minimal": 30, not 25
C2_Witness ==
  \E e \in EmittedLog :
    /\ OverridePriority(e) = 0
    /\ RawOf(IncOf(e)).emu
    /\ FlavorOf(e)[Len(FlavorOf(e))] = "Minimal"
    /\ RequestOf(e).openqa["_PRIORITY"] = 30

HasUpdatesColonPrefix(r) ==
  Len(r) >= 4 /\ r[1] = "SUSE" /\ r[2] = ":" /\ r[3] = "Updates" /\ r[4] = ":"

\* C3: a raw record none of whose channel strings is prefixed "SUSE:Updates:"
\* fails with EmptyChannels.
C3_NoUpdatesPrefixFails ==
  \A i \in 1..Len(built) :
    (\A j \in 1..Len(raws[i].channels) : ~HasUpdatesColonPrefix(raws[i].channels[j]))
      => built[i].tag = "EmptyChannels"

\* C4 as claimed: a raw record with an empty package list fails with
\* EmptyPackages, whatever its channel list.
C4_EmptyPackagesAlways ==
  \A i \in 1..Len(built) :
    raws[i].packages = <<>> => built[i].tag = "EmptyPackagesError"

\* the channel strings that yield a channel, read off the string
YieldsChannel(r) ==
  LET colons == {k \in 1..Len(r) : r[k] = ":"}
      fields == Cardinality(colons) + 1
      last == SubSeq(r, (CHOOSE k \in colons : \A m \in colons : m <= k) + 1, Len(r))
      third == SubSeq(r, (CHOOSE k \in colons : Cardinality({m \in colons : m < k}) = 1) + 1,
                      (CHOOSE k \in colons : Cardinality({m \in colons : m < k}) = 2) - 1)
  IN /\ Len(r) >= 3 /\ r[1] = "SUSE" /\ r[2] = ":" /\ r[3] = "Updates"
     /\ \/ fields = 4
        \/ /\ fields = 5
           /\ third # <<"SLE-Module-Development-Tools-OBS">>
           /\ ~(third = <<"SLE-Module-SUSE-Manager-Server">> /\ last = <<"aarch64">>)

\* C4 (amended): a raw record with an empty package list fails with
\* EmptyPackages when its channel list yields at least one channel, and with
\* EmptyChannels when it yields none.
C4_EmptyPackagesAfterChannels ==
  \A i \in 1..Len(built) :
    raws[i].packages = <<>> =>
      built[i].tag = IF \E j \in 1..Len(raws[i].channels) : YieldsChannel(raws[i].channels[j])
                       THEN "EmptyPackagesError" ELSE "EmptyChannels"

C4_Witness ==
  \E i \in 1..Len(built) :
    /\ raws[i].packages = <<>>
    /\ Len(raws[i].channels) = 2
    /\ built[i].tag = "EmptyPackagesError"

\* C5: no constructed Incident holds a channel of product
\* SLE-Module-SUSE-Manager-Server on aarch64.
C5_NoManagerServerAarch64 ==
  \A i \in 1..Len(built) :
    built[i].tag = "ok" =>
      \A c \in Range(built[i].inc.channels) :
        ~(c.product = <<"SLE-Module-SUSE-Manager-Server">> /\ c.arch = <<"aarch64">>)

\* an Incident built from a record that lists that channel first, then another
C5_Witness ==
  \E i \in 1..Len(built) :
    /\ built[i].tag = "ok"
    /\ Len(raws[i].channels) = 2
    /\ raws[i].channels[1] = Chan(<<ManagerServerProduct, V15, Aarch64>>)
    /\ Len(built[i].inc.channels) = 1

ClaimedLivepatch(packages) ==
  /\ \E k \in 1..Len(packages) :
       packages[k][1] \in {"kgraft-patch-", "kernel-livepatch"}
  /\ ~\E k \in 1..Len(packages) :
       packages[k][1] \in {"kernel-default", "kernel-source", "kernel-azure"}

\* C6: livepatch is true iff some package starts with a live-patch marker
\* and none starts with kernel-default, kernel-source or kernel-azure: for
\* the package list in the order the record gives it, and in the Incident.
C6_Livepatch ==
  \A i \in 1..Len(raws) :
    /\ _is_livepatch(raws[i].packages) = ClaimedLivepatch(raws[i].packages)
    /\ (i <= Len(built) /\ built[i].tag = "ok")
         => built[i].inc.livepatch = ClaimedLivepatch(raws[i].packages)

\* a live-patch package followed by a kernel build of the same length
C6_Witness ==
  \E i \in 1..Len(built) :
    /\ built[i].tag = "ok"
    /\ built[i].inc.packages = <<Kgraft, KernelDefault>>
    /\ ~built[i].inc.livepatch

\* C7: no request is emitted for a staging incident.
C7_StagingNeverScheduled ==
  \A e \in Range(log) : ~RawOf(IncOf(e)).inReview => e.stop # "emitted"

\* a staging incident that no other filter would have stopped
C7_Witness ==
  \E e \in Range(log) :
    /\ ~RawOf(IncOf(e)).inReview
    /\ e.stop = "staging"
    /\ ignore_onetime
    /\ ~filter_embargoed
    /\ ~("Kernel" \in Range(FlavorOf(e)))

\* The scenario of C8, read off the inputs: one flavor that defines archs and
\* issues only, with one arch and one issue; one incident, in review and not
\* embargoed, that holds the issue's channel for the arch and has a revision
\* recorded for (arch, VERSION); no matching job on the dashboard.
C8_Arch == config[1].data["archs"][1]

C8_Scenario ==
  /\ Len(config) = 1
  /\ DOMAIN config[1].data = {"archs", "issues"}
  /\ Len(config[1].data["archs"]) = 1
  /\ Len(config[1].data["issues"]) = 1
  /\ Len(raws) = 1
  /\ Len(incidents) = 1
  /\ raws[1].inReview
  /\ ~raws[1].embargoed
  /\ \E c \in Range(incidents[1].channels) :
       /\ c.product \o <<":">> \o c.version = config[1].data["issues"][1].value
       /\ c.arch = C8_Arch
  /\ \E k \in 1..Len(incidents[1].revisions) :
       incidents[1].revisions[k].key = [arch |-> C8_Arch, version |-> settings["VERSION"]]
  /\ \/ raws[1].number \notin DOMAIN dashboard
     \/ dashboard[raws[1].number].kind # "jobs"
     \/ dashboard[raws[1].number].jobs = <<>>

C8_Revision ==
  incidents[1].revisions[CHOOSE k \in 1..Len(incidents[1].revisions) :
    incidents[1].revisions[k].key = [arch |-> C8_Arch, version |-> settings["VERSION"]]].rev

C8_Result ==
  /\ Len(ret) = 1
  /\ ret[1].openqa["REPOHASH"] = C8_Revision
  /\ \E p \in Range(raws[1].packages) :
       /\ \A q \in Range(raws[1].packages) : StrLen(p) <= StrLen(q)
       /\ ret[1].openqa["BUILD"] = <<":", Str(raws[1].number), ":">> \o p

\* C8 as claimed: in that scenario the engine returns exactly one request,
\* with REPOHASH the resolved revision and BUILD ":{id}:{p}", p a package of
\* minimal name length.
C8_ExactlyOneRequest ==
  (pc = "returned" /\ C8_Scenario) => C8_Result

\* the kernel gate does not apply, and the settings hold no cloud-image query
C8_NoGate ==
  /\ \/ "Kernel" \notin Range(config[1].name)
     \/ config[1].name[Len(config[1].name)] = "Azure"
     \/ ClaimedLivepatch(raws[1].packages)
     \/ config[1].data["issues"][1].key
          \in {"OS_TEST_ISSUES", "LTSS_TEST_ISSUES", "BASE_TEST_ISSUES", "RT_TEST_ISSUES"}
  /\ "PUBLIC_CLOUD_TOOLS_IMAGE_QUERY" \notin DOMAIN settings
  /\ "PUBLIC_CLOUD_PINT_QUERY" \notin DOMAIN settings

\* C8 (amended): in that scenario, when moreover the kernel gate does not
\* apply to the flavor and the settings hold no cloud-image query, the engine
\* returns exactly one request, with REPOHASH the resolved revision and BUILD
\* ":{id}:{p}", p a package of minimal name length.
C8_ExactlyOneRequestUngated ==
  (pc = "returned" /\ C8_Scenario /\ C8_NoGate) => C8_Result

\* the scenario with two packages of different lengths, the longer one first
C8_Witness ==
  /\ pc = "returned"
  /\ C8_Scenario
  /\ C8_NoGate
  /\ Len(raws[1].packages) = 2
  /\ StrLen(raws[1].packages[1]) > StrLen(raws[1].packages[2])
  /\ Len(ret) = 1

\* the triple is subject to the kernel gate
C9_Gated(e) ==
  /\ "Kernel" \in Range(FlavorOf(e))
  /\ FlavorOf(e)[Len(FlavorOf(e))] # "Azure"
  /\ ~ClaimedLivepatch(RawOf(IncOf(e)).packages)

\* the issue keys of the flavor whose channel, for the arch, the incident holds
C9_MatchedKeys(e) ==
  {config[e.fi].data["issues"][k].key : k \in
     {k \in 1..Len(config[e.fi].data["issues"]) :
        \E c \in Range(IncOf(e).channels) :
          /\ c.product \o <<":">> \o c.version = config[e.fi].data["issues"][k].value
          /\ c.arch = ArchOf(e)}}

\* C9: a request for a flavor containing "Kernel" and not ending in "Azure"
\* and an incident that is no livepatch is emitted only if one of the four
\* kernel issue keys is matched; the gate drops no livepatch incident and no
\* flavor ending in "Azure".
C9_KernelGate ==
  \A e \in Range(log) :
    /\ (e.stop = "emitted" /\ C9_Gated(e)) =>
         C9_MatchedKeys(e) \cap {"OS_TEST_ISSUES", "LTSS_TEST_ISSUES",
                                 "BASE_TEST_ISSUES", "RT_TEST_ISSUES"} # {}
    /\ e.stop = "kernel" => C9_Gated(e)

\* the gate dropped a triple of a kernel flavor
C9_Witness ==
  \E e \in Range(log) :
    /\ e.stop = "kernel"
    /\ FlavorOf(e) = <<"Server", "-", "Kernel", "-", "Minimal">>
    /\ C9_MatchedKeys(e) = {"FOO_TEST_ISSUES"}

\* C10: with ignore_onetime false, no request is emitted for a triple for
\* which the dashboard returns a job record of the same flavor and arch whose
\* REPOHASH is the REPOHASH of the request, also when that REPOHASH comes from
\* the revision fallback.
C10_ScheduledNeverEmitted ==
  \A e \in EmittedLog :
    ~ignore_onetime =>
      ~(/\ IncOf(e).id \in DOMAIN dashboard
        /\ dashboard[IncOf(e).id].kind = "jobs"
        /\ \E k \in 1..Len(dashboard[IncOf(e).id].jobs) :
             LET job == dashboard[IncOf(e).id].jobs[k]
             IN /\ DOMAIN job = {"flavor", "arch", "settings"}
                /\ job["flavor"] = FlavorOf(e)
                /\ job["arch"] = ArchOf(e)
                /\ job["settings"]["REPOHASH"] = RequestOf(e).openqa["REPOHASH"])

\* The groups of a raw record's channels: the repositories that share an
\* architecture and a short version, in the order of the record.
C11_Groups(raw) == GroupChannels(IncidentChannels(raw.channels), <<>>)

C11_Answer(raw, group, k) ==
  RemoteGet(host, [project |-> raw.project, product |-> group.repos[k][1],
                   version |-> group.repos[k][2],
                   arch |-> IF group.repos[k][1][1] = "openSUSE" THEN <<>> ELSE group.key.arch])

\* the largest revision among the repositories that answered, 0 when none did
C11_Max(raw, group) ==
  LET seen == {0} \cup {C11_Answer(raw, group, k).rev :
                          k \in {j \in 1..Len(group.repos) :
                                   C11_Answer(raw, group, j).kind = "rev"}}
  IN CHOOSE m \in seen : \A x \in seen : x <= m

C11_Orders(n) == {f \in [1..n -> 1..n] : \A i, j \in 1..n : f[i] = f[j] => i = j}

\* C11: for a group every repository of which answers with a revision or
\* with a non-success status, get_max_revision returns the largest revision
\* answered, 0 when every repository was skipped or the group is empty, for
\* every order of the repositories; the Incident records that revision for
\* the group when it is positive.
C11_MaxRevision ==
  \A i \in 1..Len(raws) : \A g \in Range(C11_Groups(raws[i])) :
    /\ get_max_revision(<<>>, g.key.arch, raws[i].project, host) = [tag |-> "ok", rev |-> 0]
    /\ (\A k \in 1..Len(g.repos) : C11_Answer(raws[i], g, k).kind \in {"rev", "notok"}) =>
         /\ \A f \in C11_Orders(Len(g.repos)) :
              get_max_revision([k \in 1..Len(g.repos) |-> AsRepo(g.repos[f[k]])],
                               g.key.arch, raws[i].project, host)
                = [tag |-> "ok", rev |-> C11_Max(raws[i], g)]
         /\ (i <= Len(built) /\ built[i].tag = "ok") =>
              RevisionAt(built[i].inc.revisions, g.key)
                = IF C11_Max(raws[i], g) > 0 THEN Some(C11_Max(raws[i], g)) ELSE None

\* a group of two repositories, the first answering the larger revision
C11_Witness ==
  \E i \in 1..Len(built) : \E g \in Range(C11_Groups(raws[i])) :
    /\ built[i].tag = "ok"
    /\ Len(g.repos) = 2
    /\ C11_Answer(raws[i], g, 1).kind = "rev"
    /\ C11_Answer(raws[i], g, 2).kind = "rev"
    /\ C11_Answer(raws[i], g, 1).rev > C11_Answer(raws[i], g, 2).rev
    /\ RevisionAt(built[i].inc.revisions, g.key) = Some(C11_Answer(raws[i], g, 1).rev)

\* the answers the host gives to the repositories of a raw record
C12_Answers(raw) ==
  UNION {{C11_Answer(raw, g, k).kind : k \in 1..Len(g.repos)} : g \in Range(C11_Groups(raw))}

\* C12: a repository answering with a non-success status is skipped and the
\* others are still processed; a network error, a malformed body or a missing
\* revision field fails the construction with NoRepoFound; no other error
\* leaves get_max_revision or the construction of the Incident.
C12_OnlyNoRepoFound ==
  \A i \in 1..Len(built) :
    built[i].tag \notin {"EmptyChannels", "EmptyPackagesError"} =>
      /\ built[i].tag \in {"ok", "NoRepoFound"}
      /\ (built[i].tag = "ok") <=> (C12_Answers(raws[i]) \subseteq {"rev", "notok"})

\* a package name starts with one of the prefixes of a list
C13_Listed(package, prefixes) ==
  \E j \in 1..Len(prefixes) : \E n \in 0..Len(package) :
    SubSeq(package, 1, n) = prefixes[j]

\* the triples that reached the package allow-list of a flavor that has one
C13_AtAllowList ==
  {e \in Range(log) : e.stop \notin {"embargoed", "staging"} /\ "packages" \in DOMAIN DataOf(e)}

\* C13 as claimed: the allow-list drops a triple if and only if no package of
\* the incident starts with a listed prefix.
C13_AllowListAnyPackage ==
  \A e \in C13_AtAllowList :
    (e.stop = "packages") <=>
      ~\E pk \in Range(RawOf(IncOf(e)).packages) : C13_Listed(pk, DataOf(e)["packages"])

\* C13 (amended): the allow-list drops a triple if and only if no package of
\* the incident other than kernel-livepatch-tools starts with a listed prefix.
C13_AllowListButTools ==
  \A e \in C13_AtAllowList :
    (e.stop = "packages") <=>
      ~\E pk \in Range(RawOf(IncOf(e)).packages) \ {<<"kernel-livepatch", "-tools">>} :
         C13_Listed(pk, DataOf(e)["packages"])

\* an incident of kernel-livepatch-tools alone, dropped by an allow-list that
\* lists kernel-livepatch
C13_Witness ==
  \E e \in C13_AtAllowList :
    /\ e.stop = "packages"
    /\ RawOf(IncOf(e)).packages = <<LivepatchTools>>
    /\ DataOf(e)["packages"] = <<<<"kernel-livepatch">>>>

\* the triples of a flavor with a deny-list, and an incident one package of
\* which starts with a listed prefix
C14_Denied(e, packages) ==
  /\ "excluded_packages" \in DOMAIN DataOf(e)
  /\ \E pk \in packages : C13_Listed(pk, DataOf(e)["excluded_packages"])

\* C14 as claimed: no request is emitted for an incident that has a package
\* starting with a prefix of the flavor's excluded_packages.
C14_DenyListAnyPackage ==
  \A e \in Range(log) :
    C14_Denied(e, Range(RawOf(IncOf(e)).packages)) => e.stop # "emitted"

\* C14 (amended): no request is emitted for an incident that has a package
\* other than kernel-livepatch-tools starting with a prefix of the flavor's
\* excluded_packages.
C14_DenyListButTools ==
  \A e \in Range(log) :
    C14_Denied(e, Range(RawOf(IncOf(e)).packages) \ {<<"kernel-livepatch", "-tools">>})
      => e.stop # "emitted"

\* the deny-list dropped an incident for its second package, the first one
\* being kernel-livepatch-tools that the list names too
C14_Witness ==
  \E e \in Range(log) :
    /\ e.stop = "excluded_packages"
    /\ DataOf(e)["excluded_packages"] = <<<<"kernel-livepatch">>, Bash>>
    /\ Range(RawOf(IncOf(e)).packages) = {LivepatchTools, Bash}

\* the issue keys of the flavor of a triple
C15_IssueKeys(e) ==
  {config[e.fi].data["issues"][k].key : k \in 1..Len(config[e.fi].data["issues"])}

\* C15: a request is emitted only when the incident holds, for the arch, the
\* channel of some issue of the flavor; the emitted settings map an issue key
\* of the flavor to the incident id exactly when the incident holds that
\* issue's channel for the arch.
C15_IssueMatching ==
  \A e \in EmittedLog :
    /\ C9_MatchedKeys(e) # {}
    /\ \A key \in C15_IssueKeys(e) :
         (key \in C9_MatchedKeys(e)) <=>
           /\ key \in DOMAIN RequestOf(e).openqa
           /\ RequestOf(e).openqa[key] = Str(RawOf(IncOf(e)).number)

\* a request that carries one issue key of the flavor and not another, for an
\* incident that holds the other's product and version on another arch only
C15_Witness ==
  \E e \in EmittedLog :
    /\ ArchOf(e) = X86
    /\ C9_MatchedKeys(e) = {"LEAP_TEST_ISSUES"}
    /\ "OS_TEST_ISSUES" \in C15_IssueKeys(e)
    /\ RawOf(IncOf(e)).channels = <<ChanFooArm, Chan(<<OpenSuse, V154>>)>>

\* C16: for a flavor with required_issues, every emitted request has a matched
\* issue key among them, and a triple whose matched keys are disjoint from
\* them yields no request.
C16_RequiredIssues ==
  \A e \in Range(log) :
    "required_issues" \in DOMAIN DataOf(e) =>
      /\ e.stop = "emitted" => C9_MatchedKeys(e) \cap DataOf(e)["required_issues"] # {}
      /\ C9_MatchedKeys(e) \cap DataOf(e)["required_issues"] = {} => e.stop # "emitted"

\* the gate dropped a triple that matched an issue, the required one being an
\* issue of the flavor that did not match
C16_Witness ==
  \E e \in Range(log) :
    /\ e.stop = "required_issues"
    /\ C9_MatchedKeys(e) = {"OS_TEST_ISSUES"}
    /\ DataOf(e)["required_issues"] = {"BAR_TEST_ISSUES"}
    /\ "BAR_TEST_ISSUES" \in C15_IssueKeys(e)

\* the keys of the settings when the aggregate decision is taken: those of
\* the template, the identifiers, BUILD, REPOHASH, the matched issue keys and
\* INCIDENT_REPO, with KGRAFT, RRID and __CI_JOB_URL when they apply
C17_KeysSoFar(e) ==
  DOMAIN settings
    \cup {"ARCH", "FLAVOR", "VERSION", "DISTRI", "_ONLY_OBSOLETE_SAME_BUILD", "_OBSOLETE",
          "INCIDENT_ID", "BUILD", "REPOHASH", "INCIDENT_REPO"}
    \cup C9_MatchedKeys(e)
    \cup (IF ClaimedLivepatch(RawOf(IncOf(e)).packages) THEN {"KGRAFT"} ELSE {})
    \cup (IF RawOf(IncOf(e)).rr_number # 0 THEN {"RRID"} ELSE {})
    \cup (IF ci_url # <<>> THEN {"__CI_JOB_URL"} ELSE {})

C17_Set(e, key) == IF key \in DOMAIN DataOf(e) THEN DataOf(e)[key] ELSE {}

C17_Claimed(e) ==
  IF "aggregate_job" \notin DOMAIN DataOf(e) \/ DataOf(e)["aggregate_job"] THEN TRUE
  ELSE /\ C17_Set(e, "aggregate_check_true") # {}
       /\ C17_Set(e, "aggregate_check_false") # {}
       /\ C17_Set(e, "aggregate_check_true") \cap C17_KeysSoFar(e) = {}
       /\ C17_Set(e, "aggregate_check_false") \cap C17_KeysSoFar(e) # {}

C17_SingleArch(e) == singlearch \cap Range(RawOf(IncOf(e)).packages) # {}

\* C17: for an incident with no single-architecture package, withAggregate is
\* true when aggregate_job is true or absent; when it is false, withAggregate
\* is true exactly when both trigger sets are non-empty, the positive one is
\* disjoint from the keys of the settings so far and the negative one is not.
C17_WithAggregate ==
  \A e \in EmittedLog :
    ~C17_SingleArch(e) => RequestOf(e).qem["withAggregate"] = C17_Claimed(e)

\* aggregate_job false and withAggregate true, the positive trigger being a
\* key that the settings receive only after the decision
C17_Witness ==
  \E e \in EmittedLog :
    /\ ~C17_SingleArch(e)
    /\ "aggregate_job" \in DOMAIN DataOf(e) /\ ~DataOf(e)["aggregate_job"]
    /\ C17_Set(e, "aggregate_check_true") = {"_PRIORITY"}
    /\ "_PRIORITY" \in DOMAIN RequestOf(e).openqa
    /\ RequestOf(e).qem["withAggregate"]

\* C18: when a package of the incident is a single-architecture package,
\* withAggregate of the emitted request is false.
C18_SingleArchNoAggregate ==
  \A e \in EmittedLog : C17_SingleArch(e) => ~RequestOf(e).qem["withAggregate"]

\* a single-architecture package that is not the first of the incident, for
\* a flavor that would otherwise need the aggregate
C18_Witness ==
  \E e \in EmittedLog :
    /\ C17_SingleArch(e)
    /\ IncOf(e).packages[1] \notin singlearch
    /\ C17_Claimed(e)
    /\ ~RequestOf(e).qem["withAggregate"]

\* the channels of the flavor's issues, for the arch, that the incident holds
C19_MatchedChannels(e) ==
  {c \in Range(IncOf(e).channels) :
     /\ c.arch = ArchOf(e)
     /\ \E k \in 1..Len(config[e.fi].data["issues"]) :
          c.product \o <<":">> \o c.version = config[e.fi].data["issues"][k].value}

\* the download URL of a channel of an incident
C19_Url(inc, c) ==
  <<DOWNLOAD_BASE, Str(inc.id), "/SUSE_Updates_">> \o Join("_", _repo_osuse(c))

\* INCIDENT_REPO for the issues of a flavor taken in a given order
C19_RepoFor(issues, arch, inc) ==
  WithIssues(<<>>, issues, arch, inc, MatchedIssues(issues, arch, inc))["INCIDENT_REPO"]

\* C19: INCIDENT_REPO is the comma-joined list of one download URL per
\* distinct matched channel, in ascending order of the strings; it is the
\* same for every order of the flavor's issues, and several issue keys of the
\* same product and version contribute one URL.
C19_IncidentRepoSorted ==
  \A e \in EmittedLog :
    LET chans == C19_MatchedChannels(e)
        n == Cardinality(chans)
        issues == DataOf(e)["issues"]
    IN /\ \E f \in [1..n -> chans] :
            /\ \A i, j \in 1..n : f[i] = f[j] => i = j
            /\ \A i, j \in 1..n : i < j => StrLess(C19_Url(IncOf(e), f[i]), C19_Url(IncOf(e), f[j]))
            /\ RequestOf(e).openqa["INCIDENT_REPO"]
                 = Join(",", [i \in 1..n |-> C19_Url(IncOf(e), f[i])])
       /\ \A g \in C11_Orders(Len(issues)) :
            C19_RepoFor([k \in 1..Len(issues) |-> issues[g[k]]], ArchOf(e), IncOf(e))
              = RequestOf(e).openqa["INCIDENT_REPO"]

\* three matched issue keys over two channels, the issue listed first having
\* the URL that sorts last
C19_Witness ==
  \E e \in EmittedLog :
    /\ Cardinality(C9_MatchedKeys(e)) = 3
    /\ Cardinality(C19_MatchedChannels(e)) = 2
    /\ config[e.fi].data["issues"][1].key = "OS_TEST_ISSUES"
    /\ RequestOf(e).openqa["INCIDENT_REPO"][4] = "BAR"

\* the settings produced for a triple hold the key: the template's settings
\* or the flavor's params_expand do
C20_Produced(e, key) ==
  \/ key \in DOMAIN settings
  \/ "params_expand" \in DOMAIN DataOf(e) /\ key \in DOMAIN DataOf(e)["params_expand"]

\* the triples that no earlier filter stopped
C20_AtCloud == {e \in Range(log) : e.stop \in {"tools_image", "pint_image", "emitted"}}

\* the pint collaborator fails at once or knows no image at all
C20_NoPintImage ==
  \/ cloud.pint["active"].kind # "images"
  \/ \A k \in 1..Len(PintStates) : cloud.pint[PintStates[k]] = NoImages

\* C20: a triple whose settings hold a tools-image query is dropped when the
\* tools-image collaborator resolves no image or fails, one whose settings
\* hold a pint query is dropped when no image id is resolved or the pint
\* collaborator fails; the engine does not raise and the triples without a
\* query are still emitted.
C20_CloudFailureDropsRequest ==
  /\ \A e \in C20_AtCloud :
       /\ (C20_Produced(e, "PUBLIC_CLOUD_TOOLS_IMAGE_QUERY") /\ cloud.tools.kind # "image")
            => e.stop = "tools_image"
       /\ (C20_Produced(e, "PUBLIC_CLOUD_PINT_QUERY") /\ C20_NoPintImage)
            => e.stop \in {"tools_image", "pint_image"}
       /\ (~C20_Produced(e, "PUBLIC_CLOUD_TOOLS_IMAGE_QUERY")
             /\ ~C20_Produced(e, "PUBLIC_CLOUD_PINT_QUERY")) => e.stop = "emitted"
  /\ pc = "raised" =>
       \/ \E e \in Range(log) : e.stop = "KeyError"
       \/ \E i \in 1..Len(config) : "archs" \notin DOMAIN config[i].data

\* the position of a request's triple in the iteration: of its flavor in the
\* template, of its arch in the flavor's archs, of its incident in the list
C21_Position(r) ==
  LET f == CHOOSE i \in 1..Len(config) : config[i].name = r.qem["flavor"]
      a == CHOOSE i \in 1..Len(config[f].data["archs"]) :
             config[f].data["archs"][i] = r.qem["arch"]
      n == CHOOSE i \in 1..Len(incidents) : incidents[i].id = r.qem["incident"]
  IN <<f, a, n>>

C21_Before(p, q) ==
  \/ p[1] < q[1]
  \/ p[1] = q[1] /\ p[2] < q[2]
  \/ p[1] = q[1] /\ p[2] = q[2] /\ p[3] < q[3]

\* C21: the requests of ret are in the iteration order of (flavor, arch,
\* incident), one at most for each triple: of two requests, the earlier one
\* has the strictly smaller position.
C21_IterationOrder ==
  \A k, l \in 1..Len(ret) :
    k < l => C21_Before(C21_Position(ret[k]), C21_Position(ret[l]))

\* two incidents scheduled on two archs of one flavor
C21_Witness ==
  /\ pc = "returned"
  /\ Len(ret) = 4
  /\ C21_Position(ret[2]) = <<1, 1, 2>>
  /\ C21_Position(ret[3]) = <<1, 2, 1>>

\* C22: a flavor entry without archs or without issues is skipped alone: the
\* engine does not fail, it completes and returns the requests of the others.
C22_MalformedFlavorSkipped ==
  /\ pc # "raised"
  /\ \A e \in Range(log) : e.stop # "KeyError"

\* the number of times that a query string was fetched
C23_Fetches(url) == Cardinality({k \in 1..Len(fetched) : fetched[k] = url})

\* C23: within a run no query string of a cloud-image lookup, of the tools
\* image or of pint, is fetched more than once: a second lookup with the same
\* string is answered from the first one.
C23_AtMostOneFetch ==
  \A k \in 1..Len(fetched) : C23_Fetches(fetched[k]) <= 1

\* the images that the pint collaborator lists
C24_Listed ==
  UNION {Range(cloud.pint[PintStates[k]].images) :
           k \in {j \in 1..Len(PintStates) : cloud.pint[PintStates[j]].kind = "images"}}

\* the inputs for which no image can be selected
C24_MustFail(given) ==
  \/ C20_NoPintImage
  \/ ~Has(given, "PUBLIC_CLOUD_PINT_NAME")
  \/ ~Has(given, "PUBLIC_CLOUD_PINT_FIELD")
  \/ \A img \in C24_Listed : ~Has(img, given["PUBLIC_CLOUD_PINT_FIELD"])

\* the pint keys are gone, the image id is the requested field of a listed
\* image whose name and state are recorded beside it, or None on failure
C24_Outcome(c) ==
  /\ (DOMAIN c.got) \cap PintKeys = {}
  /\ Has(c.got, "PUBLIC_CLOUD_IMAGE_ID")
  /\ C24_MustFail(c.given) => c.got["PUBLIC_CLOUD_IMAGE_ID"].none
  /\ ~c.got["PUBLIC_CLOUD_IMAGE_ID"].none =>
       \E img \in C24_Listed :
         /\ StartsWith(img["name"], c.given["PUBLIC_CLOUD_PINT_NAME"])
         /\ c.got["PUBLIC_CLOUD_IMAGE_ID"].val = img[c.given["PUBLIC_CLOUD_PINT_FIELD"]]
         /\ c.got["PUBLIC_CLOUD_IMAGE_NAME"] = img["name"]
         /\ c.got["PUBLIC_CLOUD_IMAGE_STATE"] = img["state"]
  /\ pc # "raised"

\* C24 as stated: after apply_publiccloud_pint_image the pint keys are absent,
\* PUBLIC_CLOUD_IMAGE_ID is the selected image's field or None, the call did
\* not raise, and PUBLIC_CLOUD_REGION is present, with the former value of
\* PUBLIC_CLOUD_PINT_REGION, exactly when that key was in the input.
C24_RegionExactlyWhenPintRegion ==
  \A c \in Range(pint_calls) :
    /\ C24_Outcome(c)
    /\ Has(c.got, "PUBLIC_CLOUD_REGION") <=> Has(c.given, "PUBLIC_CLOUD_PINT_REGION")
    /\ Has(c.given, "PUBLIC_CLOUD_PINT_REGION") =>
         c.got["PUBLIC_CLOUD_REGION"] = c.given["PUBLIC_CLOUD_PINT_REGION"]

\* C24: after apply_publiccloud_pint_image the pint keys are absent,
\* PUBLIC_CLOUD_IMAGE_ID is the selected image's field or None, the call did
\* not raise, and PUBLIC_CLOUD_REGION holds the former value of
\* PUBLIC_CLOUD_PINT_REGION when that key was in the input and is as the
\* input had it, present or absent, when it was not.
C24_RegionPropagatedOrKept ==
  \A c \in Range(pint_calls) :
    /\ C24_Outcome(c)
    /\ Has(c.given, "PUBLIC_CLOUD_PINT_REGION") =>
         /\ Has(c.got, "PUBLIC_CLOUD_REGION")
         /\ c.got["PUBLIC_CLOUD_REGION"] = c.given["PUBLIC_CLOUD_PINT_REGION"]
    /\ ~Has(c.given, "PUBLIC_CLOUD_PINT_REGION") =>
         /\ Has(c.got, "PUBLIC_CLOUD_REGION") <=> Has(c.given, "PUBLIC_CLOUD_REGION")
         /\ Has(c.given, "PUBLIC_CLOUD_REGION") =>
              c.got["PUBLIC_CLOUD_REGION"] = c.given["PUBLIC_CLOUD_REGION"]

\* an image was found for settings whose region replaced the one they held
C24_Witness ==
  \E c \in Range(pint_calls) :
    /\ Has(c.given, "PUBLIC_CLOUD_PINT_REGION")
    /\ Has(c.given, "PUBLIC_CLOUD_REGION")
    /\ c.given["PUBLIC_CLOUD_REGION"] # c.given["PUBLIC_CLOUD_PINT_REGION"]
    /\ c.got["PUBLIC_CLOUD_REGION"] = South
    /\ ~c.got["PUBLIC_CLOUD_IMAGE_ID"].none

\* the positions of the images that match the name, the state when given and
\* the region when given and not empty
C25_Matching(images, name, region, state) ==
  {k \in 1..Len(images) :
     /\ StartsWith(images[k]["name"], name)
     /\ state.none \/ images[k]["state"] = state.val
     /\ region.none \/ region.val = <<>> \/ images[k]["region"] = region.val}

\* the first of the matching images with the greatest publishedon
C25_Expected(images, name, region, state) ==
  LET m == C25_Matching(images, name, region, state)
      newest == {k \in m : \A l \in m : images[l]["publishedon"] <= images[k]["publishedon"]}
  IN IF m = {} THEN None
     ELSE Some(images[CHOOSE k \in newest : \A l \in newest : k <= l])

C25_Regions == {None, Some(<<>>), Some(South), Some(<<"north">>)}

C25_States == {None, Some(<<"active">>), Some(<<"inactive">>)}

\* C25: get_recent_pint_image returns None when no image matches the name,
\* the state and the region, and otherwise the matching image of greatest
\* publishedon that comes first in the list.
C25_RecentPintImage ==
  pint_calls # <<>> =>
    \A k \in 1..Len(PintStates) :
      cloud.pint[PintStates[k]].kind = "images" =>
        \A name \in {Sles, Sles \o <<"-sap">>, <<"rhel">>, <<>>} :
          \A region \in C25_Regions : \A state \in C25_States :
            get_recent_pint_image(cloud.pint[PintStates[k]].images, name, region, state)
              = C25_Expected(cloud.pint[PintStates[k]].images, name, region, state)

\* of two matching images published on the same day the first one was taken
C25_Witness ==
  /\ cloud.pint["active"] = [kind |-> "images", images |-> <<ImgNew, ImgSap>>]
  /\ \E c \in Range(pint_calls) :
       /\ ~c.got["PUBLIC_CLOUD_IMAGE_ID"].none
       /\ c.got["PUBLIC_CLOUD_IMAGE_ID"].val = ImgNew["id"]

\* the triples that reached the revision lookup
C26_AtLookup ==
  {e \in Range(log) :
     e.stop \notin {"embargoed", "staging", "packages", "excluded_packages"}}

\* the entries of the incident's revisions recorded for the arch
C26_SameArch(e) ==
  {i \in 1..Len(IncOf(e).revisions) : IncOf(e).revisions[i].key.arch = ArchOf(e)}

\* the entries recorded for the arch and the version of the template
C26_Exact(e) ==
  {i \in C26_SameArch(e) : IncOf(e).revisions[i].key.version = settings["VERSION"]}

\* C26: the revision of a triple is the one recorded for its arch and the
\* template's version; without such an entry it is the first one recorded for
\* the same arch, and the triple is skipped only when the arch has no entry;
\* no REPOHASH comes from another arch.
C26_RevisionLookup ==
  \A e \in C26_AtLookup :
    /\ e.stop = "revisions" <=> C26_SameArch(e) = {}
    /\ e.stop = "emitted" =>
         LET revs == IncOf(e).revisions
             hash == RequestOf(e).openqa["REPOHASH"]
         IN /\ \E i \in C26_SameArch(e) : hash = revs[i].rev
            /\ \A i \in C26_Exact(e) : hash = revs[i].rev
            /\ C26_Exact(e) = {} =>
                 \E i \in C26_SameArch(e) :
                   /\ hash = revs[i].rev
                   /\ \A j \in C26_SameArch(e) : i <= j

\* a request whose revision is the first of two recorded for its arch, none
\* of them for the template's version and the other one for another revision
C26_Witness ==
  \E e \in EmittedLog :
    /\ C26_Exact(e) = {}
    /\ \E i, j \in C26_SameArch(e) :
         /\ i < j
         /\ IncOf(e).revisions[i].rev # IncOf(e).revisions[j].rev
         /\ RequestOf(e).openqa["REPOHASH"] = IncOf(e).revisions[i].rev

\* the fields after "SUSE:Updates:" of the strings with that prefix
C27_Fields(channels) ==
  {Split(DropFirst(channels[k], 4)) :
     k \in {j \in 1..Len(channels) : HasUpdatesColonPrefix(channels[j])}}

\* the channels of the grammar: three fields, or two fields on x86_64, but
\* the development tools and Manager-Server on aarch64
C27_Grammar(channels) ==
  {c \in {Repos(f[1], f[2], f[3]) : f \in {g \in C27_Fields(channels) : Len(g) = 3}}
           \cup {Repos(f[1], f[2], X86) : f \in {g \in C27_Fields(channels) : Len(g) = 2}} :
     /\ c.product # DevToolsProduct
     /\ ~(c.product = ManagerServerProduct /\ c.arch = Aarch64)}

\* C27: the channels of a constructed Incident are those of the grammar: the
\* strings "SUSE:Updates:" followed by three fields or by two, less the
\* development tools in both forms and Manager-Server on aarch64; the other
\* strings are ignored, and a record fails for its channels only when the
\* grammar leaves none.
C27_ChannelGrammar ==
  \A k \in 1..Len(built) :
    /\ built[k].tag = "ok" =>
         Range(built[k].inc.channels) = C27_Grammar(raws[k].channels)
    /\ built[k].tag = "EmptyChannels" <=> C27_Grammar(raws[k].channels) = {}

\* the triple passes the filters that come before the idempotency check
C28_PassedFilters(e) ==
  LET data == DataOf(e)
      inc == IncOf(e)
      matched == MatchedIssues(data["issues"], ArchOf(e), inc)
  IN /\ ~(filter_embargoed /\ inc.embargoed)
     /\ ~inc.staging
     /\ ~AllowListFilter(data, inc)
     /\ ~DenyListFilter(data, inc)
     /\ C26_SameArch(e) # {}
     /\ Has(data, "issues")
     /\ matched # {}
     /\ ~RequiredIssuesGate(data, {data["issues"][i].key : i \in matched})

\* C28: the dashboard is asked for a triple only when the triple passed the
\* embargo, staging, allow-list, deny-list, revision, issue and
\* required-issues filters, once at most for a triple, and never with
\* ignore_onetime.
C28_QueryAfterFilters ==
  \A k \in 1..Len(log) :
    log[k].queried =>
      /\ ~ignore_onetime
      /\ C28_PassedFilters(log[k])
      /\ \A l \in 1..Len(log) :
           (log[l].queried /\ log[l].fi = log[k].fi /\ log[l].ai = log[k].ai
              /\ log[l].ii = log[k].ii) => l = k

\* the dashboard was asked for a triple that passed the filters, and the
\* triple was found scheduled
C28_Witness ==
  \E e \in Range(log) :
    e.queried /\ e.stop = "scheduled" /\ C28_PassedFilters(e) /\ ~ignore_onetime

\* the triples that came to the idempotency check
C29_Checked == {e \in Range(log) : C28_PassedFilters(e) /\ ~ignore_onetime}

\* a job record for the triple, with the revision recorded for its arch and
\* the template's version
C29_JobOf(job, e) ==
  /\ {"flavor", "arch", "settings"} \subseteq DOMAIN job
  /\ "REPOHASH" \in DOMAIN job["settings"]
  /\ job["flavor"] = FlavorOf(e)
  /\ job["arch"] = ArchOf(e)
  /\ \E i \in C26_Exact(e) : job["settings"]["REPOHASH"] = IncOf(e).revisions[i].rev

\* C29: a dashboard query that raises, an empty answer and an answer with an
\* error key mean "not scheduled", and the triple is not skipped for it; a
\* job record without flavor, arch or settings.REPOHASH is passed over and
\* the records behind it are examined: the triple is skipped when one of
\* them is a job of the triple.
C29_DashboardFailures ==
  \A e \in C29_Checked :
    LET answer == DashboardAnswer(IncOf(e))
    IN /\ (answer.kind \in {"exception", "error"}) => e.stop # "scheduled"
       /\ (answer.kind = "jobs" /\ answer.jobs = <<>>) => e.stop # "scheduled"
       /\ answer.kind = "jobs" =>
            (e.stop = "scheduled" <=> \E i \in 1..Len(answer.jobs) : C29_JobOf(answer.jobs[i], e))

\* a triple skipped for the job record behind one without arch and settings
C29_Witness ==
  \E e \in C29_Checked :
    /\ e.stop = "scheduled"
    /\ DashboardAnswer(IncOf(e)).kind = "jobs"
    /\ ~Has(DashboardAnswer(IncOf(e)).jobs[1], "arch")

\* the groups of the incident's channels for an arch
C30_Groups(inc, arch) ==
  {g \in Range(GroupChannels(inc.channels, <<>>)) : g.key.arch = arch}

\* the greatest revision that the metadata host holds for a group
C30_Resolved(inc, g) ==
  get_max_revision(MapSeq(AsRepo, g.repos), g.key.arch, inc.project, host).rev

\* C30: the keys of an Incident's revisions are the groups (arch, leading
\* version) of its channels and the values are positive; the REPOHASH of a
\* request is positive, and an incident gets no request for an arch whose
\* groups all resolved to 0.
C30_RevisionsPositive ==
  /\ \A i \in 1..Len(incidents) :
       \A k \in 1..Len(incidents[i].revisions) :
         /\ \E c \in Range(incidents[i].channels) :
              /\ incidents[i].revisions[k].key.arch = c.arch
              /\ incidents[i].revisions[k].key.version
                   = IF version_match(c.version) # <<>> THEN version_match(c.version)
                     ELSE c.version
         /\ incidents[i].revisions[k].rev > 0
  /\ \A e \in EmittedLog : RequestOf(e).openqa["REPOHASH"] > 0
  /\ \A e \in Range(log) :
       (\A g \in C30_Groups(IncOf(e), ArchOf(e)) : C30_Resolved(IncOf(e), g) = 0)
         => e.stop # "emitted"

\* an incident with a group of revision 0 on the arch of a triple, which got
\* no request, and a recorded revision for another group
C30_Witness ==
  \E e \in Range(log) :
    /\ C30_Groups(IncOf(e), ArchOf(e)) # {}
    /\ \A g \in C30_Groups(IncOf(e), ArchOf(e)) : C30_Resolved(IncOf(e), g) = 0
    /\ e.stop = "revisions"
    /\ IncOf(e).revisions # <<>>

====
